---- MODULE Spec2Model ----
(***************************************************************************)
(* SpeakEasy: the audio engine (AudioAnalyzer, two-tap variant), the       *)
(* facial engine (FacialAnalyzer) and the page that drives them            *)
(* (PracticePage).                                                         *)
(*                                                                         *)
(* Numbers.  The engines compute in IEEE doubles.  The model computes in   *)
(* integers: quantities that the code rounds straight away (volumeLevel,   *)
(* region brightness, pitch) are computed exactly by integer inequalities, *)
(* and the real-valued intermediate scores (stabilities, spectral quality, *)
(* noise level) are carried in thousandths of a point, rounded down.       *)
(***************************************************************************)
EXTENDS Integers, Sequences, FiniteSets, TLC

(***************************************************************************)
(* Bounds of the model.                                                    *)
(***************************************************************************)
\* samples in the modelled time-domain window (the loops run over
\* timeDomainData.length, whatever it is)
WindowLen == 12
\* the captured signal / the filmed scene may change from tick to tick while
\* fewer than Variety values have been appended since the last reset of the
\* histories; after that it stays as it is until the next reset
Variety == 2
\* active ticks explored after a reset of the histories
MaxRun == 32
\* the size of the video frames
FrameWidth == 40

FrameHeight == 30

\* active ticks the page is followed for after a reset
PageRun == 2

\* how many times the page is seen to start a recording
MaxStarts == 2

\* seconds the elapsed-time display is followed for
MaxElapsed == 2

\* longest window handed to calculateVolume on its own
ProbeLen == 3

\* samples in a window that holds a tone
ToneLen == 64

\* active ticks two copies of an engine are followed for side by side
TwinRun == 4

\* bins in a frequency snapshot of the single-tap analyser
SimpleBins == 5

(***************************************************************************)
(* Arithmetic helpers.                                                     *)
(***************************************************************************)
Abs(x) == IF x < 0 THEN -x ELSE x

Min2(x, y) == IF x < y THEN x ELSE y

Max2(x, y) == IF x > y THEN x ELSE y

RECURSIVE SqrtSearch(_, _, _)
\* the largest r in lo..hi with r*r <= n (lo*lo <= n is assumed)
SqrtSearch(n, lo, hi) ==
  IF lo >= hi THEN lo
  ELSE LET mid == (lo + hi + 1) \div 2
       IN  IF mid * mid <= n THEN SqrtSearch(n, mid, hi)
                             ELSE SqrtSearch(n, lo, mid - 1)

\* floor(sqrt(n))
ISqrt(n) == SqrtSearch(n, 0, 46340)

RECURSIVE SumFrom(_, _, _)
SumFrom(s, i, acc) == IF i > Len(s) THEN acc ELSE SumFrom(s, i + 1, acc + s[i])

SumSeq(s) == SumFrom(s, 1, 0)

RECURSIVE SumSquaresFrom(_, _, _)
SumSquaresFrom(s, i, acc) ==
  IF i > Len(s) THEN acc ELSE SumSquaresFrom(s, i + 1, acc + s[i] * s[i])

SumSquares(s) == SumSquaresFrom(s, 1, 0)

RECURSIVE SeqMinFrom(_, _, _)
SeqMinFrom(s, i, m) ==
  IF i > Len(s) THEN m ELSE SeqMinFrom(s, i + 1, Min2(m, s[i]))

\* Math.min(...s) of a non-empty array
SeqMin(s) == SeqMinFrom(s, 2, s[1])

RECURSIVE SeqMaxFrom(_, _, _)
SeqMaxFrom(s, i, m) ==
  IF i > Len(s) THEN m ELSE SeqMaxFrom(s, i + 1, Max2(m, s[i]))

\* Math.max(...s) of a non-empty array
SeqMax(s) == SeqMaxFrom(s, 2, s[1])

\* Array.prototype.slice(-k): the last k elements, or all of them
SliceLast(s, k) == IF Len(s) <= k THEN s ELSE SubSeq(s, Len(s) - k + 1, Len(s))

\* a push that is never followed by a shift
PushCapped_NoShift(s, x, cap) == Append(s, x)

\* a push that, on a full history, drops the value pushed
PushCapped_DropNewest(s, x, cap) == IF Len(s) >= cap THEN s ELSE Append(s, x)

\* push, then shift when the length exceeds cap
PushCapped(s, x, cap) ==
  LET t == Append(s, x) IN IF Len(t) > cap THEN Tail(t) ELSE t

\* n * variance-sum of a sequence, times n again: n*sum(x^2) - (sum x)^2,
\* so that stdDev = sqrt(Spread(s)) / n and stdDev/average = sqrt(Spread(s)) / sum
Spread(s) == Len(s) * SumSquares(s) - SumSeq(s) * SumSeq(s)

(***************************************************************************)
(* AudioAnalyzer (two-tap variant).                                        *)
(***************************************************************************)
volumeThreshold == 40

VolumeCapacity == 30

ClarityCapacity == 30

frequencyBinCount == 128

maxLag == 1024

minLag == 10

defaultSampleRate == 44100

\* the all-zero metrics struct
ZeroAudioMetrics ==
  [clarity |-> 0, fillerWords |-> 0, wordsPerMinute |-> 0, volumeLevel |-> 0, pitch |-> 0]

\* the fields of a freshly constructed analyzer; audioContext is "none" when the
\* platform has no AudioContext, else "running" (later "closed")
NewAudioAnalyzer(ctx) ==
  [audioContext    |-> ctx,
   analyser        |-> FALSE,
   frequencyAnalyser |-> FALSE,
   source          |-> FALSE,
   timeDomainData  |-> FALSE,
   frequencyData   |-> FALSE,
   volumeHistory   |-> << >>,
   clarityHistory  |-> << >>,
   speechDetected  |-> FALSE]

\* initialize(stream): outcome "ok", or "throws" when there is no context or
\* when the context refuses the stream (graphOk false) before anything is bound
\* an initialize that does not test for the context
Audio_initialize_Unchecked(a, graphOk) ==
  IF ~graphOk THEN [state |-> a, threw |-> TRUE]
  ELSE [state |-> [a EXCEPT !.source = TRUE, !.analyser = TRUE,
                            !.frequencyAnalyser = TRUE,
                            !.timeDomainData = TRUE, !.frequencyData = TRUE],
        threw |-> FALSE]

Audio_initialize(a, graphOk) ==
  IF a.audioContext = "none" THEN [state |-> a, threw |-> TRUE]
  ELSE IF ~graphOk THEN [state |-> a, threw |-> TRUE]
  ELSE [state |-> [a EXCEPT !.source = TRUE, !.analyser = TRUE,
                            !.frequencyAnalyser = TRUE,
                            !.timeDomainData = TRUE, !.frequencyData = TRUE],
        threw |-> FALSE]

\* sum over the samples of |sample - 128|
AbsDeviation(data) == SumSeq([i \in 1..Len(data) |-> Abs(data[i] - 128)])

\* a volume from the root mean square of the normalized samples
calculateVolume_TrueRms(data) ==
  LET N == Len(data)
      Q == SumSeq([i \in 1..N |-> (data[i] - 128) * (data[i] - 128)])
      Reaches(v) == v = 0 \/ (2 * v - 1) * (2 * v - 1) * 256 * N <= 15625 * Q
  IN  IF 25 * Q >= 16384 * N THEN 100
      ELSE CHOOSE v \in 0..100 : Reaches(v) /\ ~Reaches(v + 1)

\* a volume without Math.min(100, ...)
calculateVolume_Unclamped(data) ==
  LET N == Len(data)
      S == AbsDeviation(data)
      Reaches(v) == v = 0 \/ (2 * v - 1) * (2 * v - 1) * 2 * N <= 15625 * S
  IN  CHOOSE v \in 0..500 : Reaches(v) /\ ~Reaches(v + 1)

\* round(min(100, 500 * sqrt(mean |(s-128)/128|))), exactly
calculateVolume(data) ==
  LET N == Len(data)
      S == AbsDeviation(data)
      \* v - 1/2 <= 500 * sqrt(S / (128 * N))
      Reaches(v) == v = 0 \/ (2 * v - 1) * (2 * v - 1) * 2 * N <= 15625 * S
  IN  IF 25 * S >= 128 * N THEN 100
      ELSE CHOOSE v \in 0..100 : Reaches(v) /\ ~Reaches(v + 1)

detectSpeech(volumeLevel) == volumeLevel > volumeThreshold

\* bins start..min(length,end)-1 summed, over (end - start); bins are 0-based
getFrequencyRange(bins, start, end) ==
  LET binCount == Min2(Len(bins), end)
  IN  [sum |-> SumSeq([i \in 1..Max2(0, binCount - start) |-> bins[start + i]]),
       width |-> end - start]

\* speech-band share of the energy, in thousandths
analyzeSpeechFrequencies(bins) ==
  LET lo == getFrequencyRange(bins, 0, 5)
      mi == getFrequencyRange(bins, 5, 15)
      hi == getFrequencyRange(bins, 15, 25)
      \* the three band averages over the common denominator 10
      low10  == (lo.sum * 10) \div lo.width
      mid10  == (mi.sum * 10) \div mi.width
      high10 == (hi.sum * 10) \div hi.width
      speechPattern10 == IF mid10 > low10 /\ mid10 > high10 THEN 10 ELSE 7
      total10 == low10 + mid10 + high10
      clarity == IF total10 > 0
                 THEN ((2 * mid10 + high10) * 50000) \div total10
                 ELSE 50000
  IN  (clarity * speechPattern10) \div 10

\* a test that passes every correlation that is not negative
Correlates_NonNegative(data, lag) ==
  LET n  == Len(data) - lag
      A(i) == data[i] - 128
      sp == SumSeq([i \in 1..Max2(0, n) |-> A(i) * A(i + lag)])
  IN  sp >= 0

\* correlation > 0.9 at this lag, exactly: with A = sample - 128,
\* sp / sqrt(sa*sb + 0.001) > 0.9 over the overlapping part of the window
Correlates(data, lag) ==
  LET n  == Len(data) - lag
      A(i) == data[i] - 128
      sp == SumSeq([i \in 1..Max2(0, n) |-> A(i) * A(i + lag)])
      sa == SumSeq([i \in 1..Max2(0, n) |-> A(i) * A(i)])
      sb == SumSeq([i \in 1..Max2(0, n) |-> A(i + lag) * A(i + lag)])
  IN  sp > 0 /\ 100 * sp * sp >= 81 * sa * sb + 21743272

\* the loop returns at a lag only while count is 0, and count is the number
\* of lags already passed over; the result is twice (sampleRate / lag) * 2,
\* or 0 when the loop runs out
autoCorrelate(data, sampleRate) ==
  LET hits == {lag \in minLag..(maxLag - 1) :
                 lag - minLag = 0 /\ Correlates(data, lag)}
  IN  IF hits = {} THEN [found |-> FALSE, lag |-> 1]
      ELSE [found |-> TRUE, lag |-> CHOOSE l \in hits : \A m \in hits : l <= m]

(***************************************************************************)
(* What the microphone delivers: a time-domain window and a frequency      *)
(* snapshot per signal.                                                    *)
(***************************************************************************)
Signals == {"silence", "faint", "murmur", "hiss", "speech"}

\* every sample at the centre value
FlatWindow == [i \in 1..WindowLen |-> 128]

\* one sample one step off centre: volumeLevel below 15
FaintWindow == [i \in 1..WindowLen |-> IF i = 1 THEN 129 ELSE 128]

\* volumeLevel between 15 and 40
QuietWindow == [i \in 1..WindowLen |-> IF i <= 4 THEN 129 ELSE 128]

\* volumeLevel above 40, nothing repeating at lag 10
RoughWindow == [i \in 1..WindowLen |-> IF i <= 6 THEN 130 ELSE 128]

\* loud, and repeating at lag 10
VoicedWindow == [i \in 1..WindowLen |-> IF i \in {1, 2, 11, 12} THEN 152 ELSE 128]

ZeroSpectrum == [k \in 1..frequencyBinCount |-> 0]

\* energy concentrated in bins 5..14
SpeechSpectrum ==
  [k \in 1..frequencyBinCount |->
     IF k <= 5 THEN 40 ELSE IF k <= 15 THEN 200 ELSE IF k <= 25 THEN 80 ELSE 10]

\* energy concentrated in bins 0..4
RumbleSpectrum ==
  [k \in 1..frequencyBinCount |-> IF k <= 5 THEN 200 ELSE 20]

WindowOf(sig) ==
  CASE sig = "silence" -> FlatWindow
    [] sig = "faint"   -> FaintWindow
    [] sig = "murmur"  -> QuietWindow
    [] sig = "hiss"    -> RoughWindow
    [] sig = "speech"  -> VoicedWindow

SpectrumOf(sig) ==
  CASE sig = "silence" -> ZeroSpectrum
    [] sig = "faint"   -> ZeroSpectrum
    [] sig = "murmur"  -> RumbleSpectrum
    [] sig = "hiss"    -> ZeroSpectrum
    [] sig = "speech"  -> SpeechSpectrum

\* what the signal-only steps of a tick compute, per signal: calculateVolume
\* and autoCorrelate over the window that getByteTimeDomainData delivers,
\* analyzeSpeechFrequencies over the snapshot that getByteFrequencyData delivers
SignalVolume == [sig \in Signals |-> calculateVolume(WindowOf(sig))]

SignalLag == [sig \in Signals |-> autoCorrelate(WindowOf(sig), defaultSampleRate)]

SignalQuality == [sig \in Signals |-> analyzeSpeechFrequencies(SpectrumOf(sig))]

\* a stability that leaves its default once the history holds 2 entries
calculateVolumeStability_FromTwo(a) ==
  IF Len(a.volumeHistory) < 2 THEN 50000
  ELSE LET recent == SliceLast(a.volumeHistory, 10)
           total  == SumSeq(recent)
       IN  IF total > 0
           THEN Max2(0, 100000 - (ISqrt(Spread(recent) * 1600) * 2500) \div total)
           ELSE 100000

\* thousandths; 50 until the history holds 3 entries
calculateVolumeStability(a) ==
  IF Len(a.volumeHistory) < 3 THEN 50000
  ELSE LET recent == SliceLast(a.volumeHistory, 10)
           total  == SumSeq(recent)
       IN  IF total > 0
           THEN Max2(0, 100000 - (ISqrt(Spread(recent) * 1600) * 2500) \div total)
           ELSE 100000

\* thousandths; 50 until the clarity history holds 3 entries
calculatePitchStability(a) ==
  IF Len(a.clarityHistory) < 3 THEN 50000
  ELSE LET recent == SliceLast(a.clarityHistory, 10)
       IN  Max2(0, 100000 - (ISqrt(Spread(recent) * 1600) * 50) \div Len(recent))

\* thousandths
estimateNoiseLevel(a) ==
  IF Len(a.volumeHistory) < 5 THEN 20000
  ELSE Min2(100000, SeqMin(SliceLast(a.volumeHistory, 20)) * 1500)

\* a clarity without the floor on the volume
calculateClarity_NoFloor(a, sig, volumeLevel, isSpeaking) ==
  IF ~a.frequencyData THEN 0
  ELSE LET blend == SignalQuality[sig] * 4 + calculateVolumeStability(a) * 3
                    + calculatePitchStability(a) * 2
                    + (100000 - estimateNoiseLevel(a))
           scale == IF ~isSpeaking /\ Len(a.volumeHistory) > 5 THEN 20000 ELSE 10000
       IN  Min2(100, Max2(0, (2 * blend + scale) \div (2 * scale)))

calculateClarity(a, sig, volumeLevel, isSpeaking) ==
  IF volumeLevel < 15 THEN 0
  ELSE IF ~a.frequencyData THEN 0
  ELSE LET speakerFreqQuality == SignalQuality[sig]
           volumeStability == calculateVolumeStability(a)
           pitchStability  == calculatePitchStability(a)
           noiseLevel      == estimateNoiseLevel(a)
           \* ten-thousandths of a point
           blend == speakerFreqQuality * 4 + volumeStability * 3
                    + pitchStability * 2 + (100000 - noiseLevel)
           halved == ~isSpeaking /\ Len(a.volumeHistory) > 5
           scale == IF halved THEN 20000 ELSE 10000
       IN  Min2(100, Max2(0, (2 * blend + scale) \div (2 * scale)))

\* Math.round((sampleRate / lag) * 2), or 0
calculatePitch(a, sig) ==
  IF ~a.timeDomainData THEN 0
  ELSE LET r == SignalLag[sig]
       IN  IF r.found THEN (4 * defaultSampleRate + r.lag) \div (2 * r.lag) ELSE 0

\* a count that looks at the whole history, not its last 5 entries
detectFillerWords_WholeHistory(a, rnd) ==
  IF Len(a.volumeHistory) < 2 THEN 0
  ELSE IF SeqMax(a.volumeHistory) - SeqMin(a.volumeHistory) > 20 THEN rnd ELSE 0

\* reads the history as it stands when called; rnd is floor(Math.random() * 3)
detectFillerWords(a, rnd) ==
  IF Len(a.volumeHistory) < 2 THEN 0
  ELSE LET recent == SliceLast(a.volumeHistory, 5)
       IN  IF SeqMax(recent) - SeqMin(recent) > 20 THEN rnd ELSE 0

\* an estimate that does not look at the pitch
estimateWordsPerMinute_IgnoresPitch(a, sig, isSpeaking) ==
  IF ~isSpeaking THEN 0
  ELSE (1300000 + 4 * calculateVolumeStability(a) + 5000) \div 10000

estimateWordsPerMinute(a, sig, isSpeaking) ==
  IF ~isSpeaking THEN 0
  ELSE LET frequency == calculatePitch(a, sig)
           volumeVariation == calculateVolumeStability(a)
       IN  IF frequency = 0 THEN 0
           ELSE (1300000 + 4 * volumeVariation + 5000) \div 10000

\* a reset branch that forgets the histories
Audio_reset_KeepsHistories(a) == [a EXCEPT !.speechDetected = FALSE]

\* the disabled / uninitialized branch of analyze
Audio_reset(a) ==
  [a EXCEPT !.volumeHistory = << >>, !.clarityHistory = << >>,
            !.speechDetected = FALSE]

\* the two pushes of analyze, each followed by a shift when over capacity
Audio_push(a, volumeLevel, clarity, wordsPerMinute) ==
  [state |-> [a EXCEPT
                !.volumeHistory  = PushCapped(@, volumeLevel, VolumeCapacity),
                !.clarityHistory = PushCapped(@, clarity, ClarityCapacity)],
   active |-> TRUE,
   threw |-> FALSE,
   clarity |-> clarity,
   wordsPerMinute |-> wordsPerMinute,
   volumeLevel |-> volumeLevel]

\* an analyze whose guard tests the flag only: on an engine without an
\* analyser the read of the time-domain data dereferences null
Audio_analyzeBody_FlagOnly(a, audioEnabled, sig) ==
  IF ~audioEnabled
  THEN [state |-> Audio_reset(a), active |-> FALSE, threw |-> FALSE,
        clarity |-> 0, wordsPerMinute |-> 0, volumeLevel |-> 0]
  ELSE IF ~a.analyser \/ ~a.timeDomainData
  THEN [state |-> a, active |-> FALSE, threw |-> TRUE,
        clarity |-> 0, wordsPerMinute |-> 0, volumeLevel |-> 0]
  ELSE LET volumeLevel == SignalVolume[sig]
           isSpeaking  == detectSpeech(volumeLevel)
       IN  Audio_push(a, volumeLevel,
                      calculateClarity(a, sig, volumeLevel, isSpeaking),
                      estimateWordsPerMinute(a, sig, isSpeaking))

\* analyze(audioEnabled) while the analyser delivers signal sig, up to the
\* return statement: the guard, the measurements and the two pushes
Audio_analyzeBody(a, audioEnabled, sig) ==
  IF ~audioEnabled \/ ~a.analyser \/ ~a.timeDomainData
  THEN [state |-> Audio_reset(a), active |-> FALSE, threw |-> FALSE,
        clarity |-> 0, wordsPerMinute |-> 0, volumeLevel |-> 0]
  ELSE LET volumeLevel == SignalVolume[sig]
           isSpeaking  == detectSpeech(volumeLevel)
           clarity     == calculateClarity(a, sig, volumeLevel, isSpeaking)
           wordsPerMinute == estimateWordsPerMinute(a, sig, isSpeaking)
       IN  Audio_push(a, volumeLevel, clarity, wordsPerMinute)

\* the struct analyze returns: all zero on the reset branch, else built after
\* the pushes, detectFillerWords and calculatePitch being called in it
Audio_analyzeReturn(m, sig, rnd) ==
  IF ~m.active THEN ZeroAudioMetrics
  ELSE [clarity |-> m.clarity,
        fillerWords |-> detectFillerWords(m.state, rnd),
        wordsPerMinute |-> m.wordsPerMinute,
        volumeLevel |-> m.volumeLevel,
        pitch |-> calculatePitch(m.state, sig)]

\* a destroy that leaves the promise of close() without a catch
Audio_destroy_Uncaught(a) ==
  IF a.audioContext = "none" THEN [state |-> a, rejected |-> FALSE, unhandled |-> FALSE]
  ELSE [state |-> [a EXCEPT !.audioContext = "closed"],
        rejected |-> a.audioContext = "closed",
        unhandled |-> a.audioContext = "closed"]

\* destroy(): close() of a closed context rejects, and the rejection is caught
Audio_destroy(a) ==
  IF a.audioContext = "none" THEN [state |-> a, rejected |-> FALSE, unhandled |-> FALSE]
  ELSE [state |-> [a EXCEPT !.audioContext = "closed"],
        rejected |-> a.audioContext = "closed",
        unhandled |-> FALSE]

(***************************************************************************)
(* FacialAnalyzer.                                                         *)
(***************************************************************************)
FaceCapacity == 30

ConfidenceCapacity == 30

SmileCapacity == 20

edgeThreshold == 30

minEdges == 100

minBrightness == 40

DefaultFacialMetrics ==
  [confidence |-> 0, emotionalTone |-> "Unknown", faceVisible |-> FALSE,
   eyeOpenness |-> 0, brightness |-> 0]

NewFacialAnalyzer ==
  [canvasRef            |-> FALSE,
   previousFrameData    |-> "null",
   faceDetectionHistory |-> << >>,
   confidenceHistory    |-> << >>,
   headPositionHistory  |-> << >>,
   smileHistory         |-> << >>]

Facial_initialize(f) == [f EXCEPT !.canvasRef = TRUE]

\* a reset that forgets the smile history
resetHistory_KeepsSmiles(f) ==
  [f EXCEPT !.faceDetectionHistory = << >>, !.confidenceHistory = << >>,
            !.headPositionHistory = << >>]

resetHistory(f) ==
  [f EXCEPT !.faceDetectionHistory = << >>, !.confidenceHistory = << >>,
            !.headPositionHistory = << >>, !.smileHistory = << >>]

\* Math.floor(frac * size) for the fraction num/den
FloorFrac(num, den, size) == (num * size) \div den

\* data[i] + data[i+1] + data[i+2], three times the brightness read at byte i
Sum3(data, i) == data[i] + data[i + 1] + data[i + 2]

RECURSIVE StrideSum(_, _, _, _)
\* Sum3 over the bytes from + 4k, k in k0..k1-1 (k0 < k1), by halving
StrideSum(data, from, k0, k1) ==
  IF k1 - k0 = 1 THEN Sum3(data, from + 4 * k0)
  ELSE LET mid == (k0 + k1) \div 2
       IN  StrideSum(data, from, k0, mid) + StrideSum(data, from, mid, k1)

\* the loop of analyzeRegion: i from `from` while i < `to`, in steps of 4
RegionSum(data, from, to) ==
  LET count == IF to > from THEN (to - from + 3) \div 4 ELSE 0
  IN  [sum |-> IF count > 0 THEN StrideSum(data, from, 0, count) ELSE 0,
       count |-> count]

\* analyzeRegion(...).brightness: Math.round of the mean of (R+G+B)/3 over the
\* bytes the loop visits; a box is given by four fractions sx, sy, ex, ey
\* (the variance the function also returns is read by no caller)
analyzeRegion(frame, sx, sy, ex, ey) ==
  LET w == frame.width
      h == frame.height
      startPixel == FloorFrac(sy[1], sy[2], h) * w + FloorFrac(sx[1], sx[2], w)
      endPixel   == FloorFrac(ey[1], ey[2], h) * w + FloorFrac(ex[1], ex[2], w)
      limit == Min2(endPixel, 4 * w * h)
  IN  CHOOSE b \in {IF r.count > 0 THEN (2 * r.sum + 3 * r.count) \div (6 * r.count) ELSE 0 :
                     r \in {RegionSum(frame.data, startPixel, limit)}} : TRUE

\* 1 when the grid point at byte idx is an edge: |c - r| + |c - d| > 30
EdgeAt(frame, idx) ==
  LET c == Sum3(frame.data, idx)
      r == Sum3(frame.data, idx + 4)
      d == Sum3(frame.data, idx + frame.width * 4)
  IN  IF Abs(c - r) + Abs(c - d) > 3 * edgeThreshold THEN 1 ELSE 0

\* the grid points y = 1, 3, .. < height - 1 and x = 1, 3, .. < width - 1
detectEdges(frame) ==
  LET ys == {y \in 1..(frame.height - 2) : y % 2 = 1}
      xs == {x \in 1..(frame.width - 2) : x % 2 = 1}
  IN  Cardinality({<<x, y>> \in xs \X ys :
                     EdgeAt(frame, (y * frame.width + x) * 4) = 1})

\* features that count as significant from 100 edges on
detectFacialFeatures_FromMinimum(frame) == detectEdges(frame) >= minEdges

detectFacialFeatures(frame) == detectEdges(frame) > minEdges

\* an eye openness without Math.min(100, ...)
detectEyeOpenness_Unclamped(frame) ==
  LET leftEyeDarkness  == 255 - analyzeRegion(frame, <<3, 10>>, <<35, 100>>, <<42, 100>>, <<48, 100>>)
      rightEyeDarkness == 255 - analyzeRegion(frame, <<58, 100>>, <<35, 100>>, <<7, 10>>, <<48, 100>>)
      both == leftEyeDarkness + rightEyeDarkness
  IN  (2 * both + 3) \div 6

detectEyeOpenness(frame) ==
  LET leftEyeDarkness  == 255 - analyzeRegion(frame, <<3, 10>>, <<35, 100>>, <<42, 100>>, <<48, 100>>)
      rightEyeDarkness == 255 - analyzeRegion(frame, <<58, 100>>, <<35, 100>>, <<7, 10>>, <<48, 100>>)
      \* Math.round(min(100, ((l + r) / 2) / 150 * 100)) = round(min(100, (l + r) / 3))
      both == leftEyeDarkness + rightEyeDarkness
  IN  IF both >= 300 THEN 100 ELSE (2 * both + 3) \div 6

\* the unrounded smile, in tenths: min(100, darkness / 100 * 80)
mouthSmile10(frame) ==
  LET mouthDarkness == 255 - analyzeRegion(frame, <<35, 100>>, <<3, 5>>, <<65, 100>>, <<3, 4>>)
  IN  Max2(0, Min2(1000, 8 * mouthDarkness))

estimateHeadPose(frame) ==
  LET leftHalf   == analyzeRegion(frame, <<1, 10>>, <<1, 5>>, <<2, 5>>, <<4, 5>>)
      rightHalf  == analyzeRegion(frame, <<3, 5>>, <<1, 5>>, <<9, 10>>, <<4, 5>>)
      topHalf    == analyzeRegion(frame, <<1, 5>>, <<1, 10>>, <<4, 5>>, <<2, 5>>)
      bottomHalf == analyzeRegion(frame, <<1, 5>>, <<1, 2>>, <<4, 5>>, <<17, 20>>)
  IN  [yaw   |-> IF leftHalf > rightHalf THEN -15
                 ELSE IF rightHalf > leftHalf THEN 15 ELSE 0,
       pitch |-> IF topHalf > bottomHalf THEN 15
                 ELSE IF bottomHalf > topHalf THEN -15 ELSE 0]

\* one sample of detectFacialSymmetry, in sixths of a point:
\* max(0, 100 - |left - right| * 0.5) with brightness in thirds
SymmetrySample(frame, x, y) ==
  LET leftIdx  == (y * frame.width + x) * 4
      rightIdx == (y * frame.width + (frame.width - x)) * 4
  IN  IF leftIdx >= 0 /\ rightIdx < 4 * frame.width * frame.height
      THEN [n |-> 1,
            score6 |-> Max2(0, 600 - Abs(Sum3(frame.data, leftIdx)
                                         - Sum3(frame.data, rightIdx)))]
      ELSE [n |-> 0, score6 |-> 0]

detectFacialSymmetry(frame) ==
  LET y0 == FloorFrac(1, 5, frame.height)
      y1 == FloorFrac(3, 4, frame.height)
      x1 == FloorFrac(7, 20, frame.width)
      ys == {y \in y0..(y1 - 1) : (y - y0) % 4 = 0}
      xs == {x \in 10..(x1 - 1) : (x - 10) % 5 = 0}
      samples == {<<x, y, SymmetrySample(frame, x, y)>> : <<x, y>> \in xs \X ys}
      count  == Cardinality({t \in samples : t[3].n = 1})
      RECURSIVE Total(_)
      Total(S) == IF S = {} THEN 0
                  ELSE LET t == CHOOSE u \in S : TRUE
                       IN  t[3].score6 + Total(S \ {t})
  IN  IF count > 0 THEN (2 * Total(samples) + 6 * count) \div (12 * count) ELSE 50

calculateCenteredness(frame) ==
  LET centerRegion == analyzeRegion(frame, <<1, 4>>, <<1, 4>>, <<3, 4>>, <<3, 4>>)
      periphery2 == analyzeRegion(frame, <<0, 1>>, <<0, 1>>, <<1, 5>>, <<1, 1>>)
                    + analyzeRegion(frame, <<4, 5>>, <<0, 1>>, <<1, 1>>, <<1, 1>>)
  IN  IF 2 * centerRegion > periphery2 THEN 100 ELSE 50

\* thousandths; 50 until the confidence history holds 3 entries
calculateFaceStability(f) ==
  IF Len(f.confidenceHistory) < 3 THEN 50000
  ELSE LET recent == SliceLast(f.confidenceHistory, 15)
       IN  Max2(0, 100000 - (ISqrt(Spread(recent) * 1600) * 250) \div (3 * Len(recent)))

\* a confidence whose smile score is not scaled to 80
calculateConfidence_FullSmile(brightness, eyeOpenness, smile, symmetry, headPose, stability, centeredness) ==
  LET brightnessScore == Min2(100000, 500 * brightness)
      eyeScore        == Min2(100000, 1250 * eyeOpenness)
      smileScore      == Min2(100000, 1000 * smile)
      symmetryScore   == 800 * symmetry
      headAlignmentScore == 100000 - (Abs(headPose.yaw) + Abs(headPose.pitch)) * 2000
      overall == brightnessScore * 15 + eyeScore * 25 + smileScore * 15
                 + symmetryScore * 15 + headAlignmentScore * 15
                 + stability * 10 + centeredness * 5000
  IN  Max2(0, Min2(100, (overall + 50000) \div 100000))

\* stability in thousandths, everything else as the code has it
calculateConfidence(brightness, eyeOpenness, smile, symmetry, headPose, stability, centeredness) ==
  LET brightnessScore == Min2(100000, 500 * brightness)
      eyeScore        == Min2(100000, 1250 * eyeOpenness)
      smileScore      == Min2(100000, 800 * smile)
      symmetryScore   == 800 * symmetry
      headAlignmentScore == 100000 - (Abs(headPose.yaw) + Abs(headPose.pitch)) * 2000
      \* hundred-thousandths of a point
      overall == brightnessScore * 15 + eyeScore * 25 + smileScore * 15
                 + symmetryScore * 15 + headAlignmentScore * 15
                 + stability * 10 + centeredness * 5000
  IN  Max2(0, Min2(100, (overall + 50000) \div 100000))

\* a tone that tests the lighting before the eyes
determineEmotionalTone_LightingFirst(brightness, eyeOpenness, smile, headPose) ==
  IF brightness < 80 THEN "Uncertain"
  ELSE IF eyeOpenness < 30 THEN "Nervous"
  ELSE IF smile > 50 /\ eyeOpenness > 60 THEN "Confident"
  ELSE IF smile > 40 THEN "Engaged"
  ELSE IF Abs(headPose.pitch) > 10 \/ Abs(headPose.yaw) > 10 THEN "Distracted"
  ELSE IF eyeOpenness > 70 /\ brightness > 130 THEN "Alert"
  ELSE "Neutral"

determineEmotionalTone(brightness, eyeOpenness, smile, headPose) ==
  IF eyeOpenness < 30 THEN "Nervous"
  ELSE IF brightness < 80 THEN "Uncertain"
  ELSE IF smile > 50 /\ eyeOpenness > 60 THEN "Confident"
  ELSE IF smile > 40 THEN "Engaged"
  ELSE IF Abs(headPose.pitch) > 10 \/ Abs(headPose.yaw) > 10 THEN "Distracted"
  ELSE IF eyeOpenness > 70 /\ brightness > 130 THEN "Alert"
  ELSE "Neutral"

(***************************************************************************)
(* What the camera delivers: RGBA frames, row-major, 4 bytes per pixel,    *)
(* byte i of the buffer being data[i] (0-based, as in the code).           *)
(***************************************************************************)
Frames == {"black", "blank", "dim", "dusk", "thin", "faceA", "faceB"}

\* a gray frame: pixels before the cutoff (row-major) are checkered, level
\* even where x + y is even and odd elsewhere; the rest are flat at level
\* even; alpha is 255
Textured(even, odd, cutoff) ==
  [width  |-> FrameWidth,
   height |-> FrameHeight,
   data   |-> [i \in 0..(4 * FrameWidth * FrameHeight - 1) |->
                 LET p == i \div 4
                     x == p % FrameWidth
                     y == p \div FrameWidth
                 IN  IF i % 4 = 3 THEN 255
                     ELSE IF p < cutoff /\ (x + y) % 2 = 1 THEN odd ELSE even]]

Checkered(even, odd) == Textured(even, odd, FrameWidth * FrameHeight)

\* every pixel black: what a disabled video track delivers
BlackFrame == Checkered(0, 0)

\* every pixel mid-gray
BlankFrame == Checkered(128, 128)

\* textured all over, center brightness just under 40
DimFrame == Checkered(78, 0)

\* textured all over, center brightness 40
DuskFrame == Checkered(80, 0)

\* bright, textured over the top rows only: 100 edges
ThinFrame == Textured(200, 100, 11 * FrameWidth + 11)

\* bright and textured all over
FaceAFrame == Checkered(200, 100)

\* less bright, textured over the top rows only: 101 edges
FaceBFrame == Textured(140, 60, 11 * FrameWidth + 13)

FrameOf(name) ==
  CASE name = "black" -> BlackFrame
    [] name = "blank" -> BlankFrame
    [] name = "dim"   -> DimFrame
    [] name = "dusk"  -> DuskFrame
    [] name = "thin"  -> ThinFrame
    [] name = "faceA" -> FaceAFrame
    [] name = "faceB" -> FaceBFrame

\* what the frame-only steps of detectFaceAndEmotions compute, per frame
FrameFeatures ==
  [name \in Frames |->
     LET frame == FrameOf(name)
     IN  [centerBrightness |-> analyzeRegion(frame, <<1, 5>>, <<3, 20>>, <<4, 5>>, <<17, 20>>),
          edges        |-> detectEdges(frame),
          hasSignificantFeatures |-> detectFacialFeatures(frame),
          symmetry     |-> detectFacialSymmetry(frame),
          eyeOpenness  |-> detectEyeOpenness(frame),
          smile10      |-> mouthSmile10(frame),
          headPose     |-> estimateHeadPose(frame),
          centeredness |-> calculateCenteredness(frame)]]

\* detectMouthSmile: pushes the unrounded smile, returns the rounded one
detectMouthSmile(f, name) ==
  [state |-> [f EXCEPT !.smileHistory =
                         PushCapped(@, FrameFeatures[name].smile10, SmileCapacity)],
   smile |-> (FrameFeatures[name].smile10 + 5) \div 10]

\* the metrics of a visible face, the smile being pushed on the way
VisibleFace(f, name, smiled) ==
  LET ft == FrameFeatures[name]
  IN  [state   |-> smiled.state,
       metrics |-> [confidence |->
                      calculateConfidence(ft.centerBrightness, ft.eyeOpenness,
                                          smiled.smile, ft.symmetry, ft.headPose,
                                          calculateFaceStability(smiled.state),
                                          ft.centeredness),
                    emotionalTone |->
                      determineEmotionalTone(ft.centerBrightness, ft.eyeOpenness,
                                             smiled.smile, ft.headPose),
                    faceVisible |-> TRUE,
                    eyeOpenness |-> ft.eyeOpenness,
                    brightness  |-> ft.centerBrightness]]

\* a detection that tests the centre brightness only
detectFaceAndEmotions_BrightnessOnly(f, name) ==
  IF FrameFeatures[name].centerBrightness < minBrightness
  THEN [state |-> f, metrics |-> DefaultFacialMetrics]
  ELSE VisibleFace(f, name, detectMouthSmile(f, name))

detectFaceAndEmotions(f, name) ==
  IF FrameFeatures[name].centerBrightness < minBrightness
     \/ ~FrameFeatures[name].hasSignificantFeatures
  THEN [state |-> f, metrics |-> DefaultFacialMetrics]
  ELSE VisibleFace(f, name, detectMouthSmile(f, name))

\* pushes that record a confidence on every frame, visible face or not
Facial_push_EveryFrame(d, name) ==
  [state |-> [d.state EXCEPT
                !.faceDetectionHistory =
                   PushCapped(@, d.metrics.faceVisible, FaceCapacity),
                !.confidenceHistory =
                   PushCapped(@, d.metrics.confidence, ConfidenceCapacity),
                !.previousFrameData = name],
   metrics |-> d.metrics,
   read |-> TRUE, reset |-> FALSE, threw |-> FALSE]

\* the pushes of analyze after detectFaceAndEmotions, and previousFrameData
Facial_push(d, name) ==
  [state |-> [d.state EXCEPT
                !.faceDetectionHistory =
                   PushCapped(@, d.metrics.faceVisible, FaceCapacity),
                !.confidenceHistory =
                   IF d.metrics.faceVisible
                   THEN PushCapped(@, d.metrics.confidence, ConfidenceCapacity)
                   ELSE @,
                !.previousFrameData = name],
   metrics |-> d.metrics,
   read |-> TRUE, reset |-> FALSE, threw |-> FALSE]

\* analyze(videoElement, videoEnabled) while the video shows frame `name`,
\* a frame of FrameWidth x FrameHeight pixels (a video that has loaded);
\* ctxOk is whether canvas.getContext('2d') returns a context
Facial_analyze(f, videoEnabled, name, ctxOk) ==
  IF ~videoEnabled \/ ~f.canvasRef
  THEN [state |-> resetHistory(f), metrics |-> DefaultFacialMetrics,
        read |-> FALSE, reset |-> TRUE, threw |-> FALSE]
  ELSE IF ~ctxOk
  THEN [state |-> f, metrics |-> DefaultFacialMetrics,
        read |-> FALSE, reset |-> FALSE, threw |-> FALSE]
  ELSE Facial_push(detectFaceAndEmotions(f, name), name)

Facial_destroy(f) == resetHistory([f EXCEPT !.previousFrameData = "null"])

(***************************************************************************)
(* State.                                                                  *)
(***************************************************************************)
VARIABLES
  focus,          \* "audio" / "facial": the engine a client exercises on its
                  \* own in this run; "page": the PracticePage drives both
  audio,          \* the AudioAnalyzer's fields
  mic,            \* the signal at the microphone
  lastAudio,      \* what the last call on the audio engine did and returned
  volumeLog,      \* every volumeLevel appended since the last reset
  clarityLog,     \* every clarity appended since the last reset
  facial,         \* the FacialAnalyzer's fields
  camera,         \* the frame the video element shows
  lastFacial,     \* what the last call on the facial engine did and returned
  faceLog,        \* every faceVisible appended since the last reset
  confidenceLog,  \* every confidence appended since the last reset
  smileLog,       \* every smile appended since the last reset
  page,           \* the PracticePage: its state, refs and timers
  probe           \* a function under test on its own: its input and result

audioVars == <<audio, mic, lastAudio, volumeLog, clarityLog>>

facialVars == <<facial, camera, lastFacial, faceLog, confidenceLog, smileLog>>

vars == <<focus, audioVars, facialVars, page, probe>>

\* the last call on the audio engine: which operation, with what flag, what
\* it did and returned, how long volumeHistory was before it; and, of the
\* calls so far, whether an initialize threw and whether an analyze was
\* passed audioEnabled = false
NoAudioCall ==
  [op |-> "none", enabled |-> FALSE, active |-> FALSE, threw |-> FALSE,
   rejected |-> FALSE, unhandled |-> FALSE, result |-> ZeroAudioMetrics,
   priorLen |-> 0, initThrew |-> FALSE, disabledBefore |-> FALSE]

\* the last call on the facial engine: which operation, with what flag,
\* whether it read a frame and which, what it returned, how long
\* faceDetectionHistory was before it; and whether an analyze so far was
\* passed videoEnabled = false
NoFacialCall ==
  [op |-> "none", enabled |-> FALSE, read |-> FALSE, frame |-> "null",
   threw |-> FALSE, result |-> DefaultFacialMetrics, priorLen |-> 0,
   disabledBefore |-> FALSE]

\* no function is under test on its own
NoProbe == [of |-> "none"]

\* the PracticePage as first rendered: getUserMedia asked for and pending
NewPage ==
  [mounted             |-> TRUE,
   media               |-> "getUserMedia",
   recordingState      |-> "idle",
   videoEnabled        |-> TRUE,
   audioEnabled        |-> TRUE,
   elapsedTime         |-> 0,
   analysisData        |-> [fillerWords |-> 0, wordsPerMinute |-> 0,
                            confidenceScore |-> 0, clarity |-> 0,
                            emotionalTone |-> "Neutral"],
   faceDetected        |-> FALSE,
   streamRef           |-> FALSE,
   intervalRef         |-> 0,
   analysisIntervalRef |-> 0,
   audioAnalyzerRef    |-> FALSE,
   facialAnalyzerRef   |-> FALSE,
   timers              |-> {},
   nextTimer           |-> 1,
   lastTick            |-> [ran |-> FALSE, audio |-> FALSE, facial |-> FALSE,
                            audioEnabled |-> FALSE, videoEnabled |-> FALSE],
   faulted             |-> FALSE]

\* two engines just constructed, one of them about to be exercised; whether
\* the platform has an AudioContext is open
Init ==
  /\ focus \in {"audio", "facial"}
  /\ audio \in IF focus = "audio"
               THEN {NewAudioAnalyzer("none"), NewAudioAnalyzer("running")}
               ELSE {NewAudioAnalyzer("running")}
  /\ mic \in IF focus = "audio" THEN Signals ELSE {"silence"}
  /\ lastAudio = NoAudioCall
  /\ volumeLog = << >>
  /\ clarityLog = << >>
  /\ facial = NewFacialAnalyzer
  /\ camera \in IF focus = "facial" THEN Frames ELSE {"blank"}
  /\ lastFacial = NoFacialCall
  /\ faceLog = << >>
  /\ confidenceLog = << >>
  /\ smileLog = << >>
  /\ page = NewPage
  /\ probe = NoProbe

\* the signal at the microphone changes
MicChange ==
  /\ focus = "audio"
  /\ Len(volumeLog) < Variety
  /\ \E sig \in Signals \ {mic} : mic' = sig
  /\ UNCHANGED <<probe, focus, page, audio, lastAudio, volumeLog, clarityLog, facialVars>>

AudioInitialize ==
  /\ focus = "audio"
  /\ \E graphOk \in BOOLEAN :
       \E r \in {Audio_initialize(audio, graphOk)} :
           /\ audio' = r.state
           /\ lastAudio' = [NoAudioCall EXCEPT
                              !.op = "initialize",
                              !.threw = r.threw,
                              !.initThrew = lastAudio.initThrew \/ r.threw,
                              !.disabledBefore = lastAudio.disabledBefore]
  /\ UNCHANGED <<probe, focus, page, mic, volumeLog, clarityLog, facialVars>>

\* one call of analyze: what it leaves in the engine, what it returns, and
\* the logs of what it appended
AudioTick(audioEnabled, sig, run) ==
  \E m \in {Audio_analyzeBody(audio, audioEnabled, sig)} :
      /\ m.active => Len(volumeLog) < run
      /\ audio' = m.state
      /\ \E rnd \in 0..2 :
           lastAudio' = [NoAudioCall EXCEPT
                           !.op = "analyze",
                           !.enabled = audioEnabled,
                           !.active = m.active,
                           !.threw = m.threw,
                           !.result = Audio_analyzeReturn(m, sig, rnd),
                           !.priorLen = Len(audio.volumeHistory),
                           !.initThrew = lastAudio.initThrew,
                           !.disabledBefore = lastAudio.disabledBefore \/ ~audioEnabled]
      /\ volumeLog' = IF m.active THEN Append(volumeLog, m.volumeLevel) ELSE << >>
      /\ clarityLog' = IF m.active THEN Append(clarityLog, m.clarity) ELSE << >>

AudioAnalyze ==
  /\ focus = "audio"
  /\ \E audioEnabled \in BOOLEAN : AudioTick(audioEnabled, mic, MaxRun)
  /\ UNCHANGED <<probe, focus, page, mic, facialVars>>

AudioDestroy ==
  /\ focus = "audio"
  /\ \E r \in {Audio_destroy(audio)} :
         /\ audio' = r.state
         /\ lastAudio' = [NoAudioCall EXCEPT
                            !.op = "destroy",
                            !.rejected = r.rejected,
                            !.unhandled = r.unhandled,
                            !.initThrew = lastAudio.initThrew,
                            !.disabledBefore = lastAudio.disabledBefore]
  /\ UNCHANGED <<probe, focus, page, mic, volumeLog, clarityLog, facialVars>>

\* the video shows another frame
CameraChange ==
  /\ focus = "facial"
  /\ Len(faceLog) < Variety
  /\ \E name \in Frames \ {camera} : camera' = name
  /\ UNCHANGED <<probe, focus, page, audioVars, facial, lastFacial, faceLog, confidenceLog, smileLog>>

FacialInitialize ==
  /\ focus = "facial"
  /\ facial' = Facial_initialize(facial)
  /\ lastFacial' = [NoFacialCall EXCEPT !.op = "initialize",
                                        !.disabledBefore = lastFacial.disabledBefore]
  /\ UNCHANGED <<probe, focus, page, audioVars, camera, faceLog, confidenceLog, smileLog>>

FacialTick(videoEnabled, name, run) ==
  \E ctxOk \in BOOLEAN :
    \E m \in {Facial_analyze(facial, videoEnabled, name, ctxOk)} :
      /\ m.read => Len(faceLog) < run
      /\ facial' = m.state
      /\ lastFacial' = [NoFacialCall EXCEPT
                          !.op = "analyze",
                          !.enabled = videoEnabled,
                          !.read = m.read,
                          !.frame = IF m.read THEN name ELSE "null",
                          !.disabledBefore = lastFacial.disabledBefore \/ ~videoEnabled,
                          !.threw = m.threw,
                          !.result = m.metrics,
                          !.priorLen = Len(facial.faceDetectionHistory)]
      /\ faceLog' = IF m.reset THEN << >>
                    ELSE IF m.read THEN Append(faceLog, m.metrics.faceVisible)
                    ELSE faceLog
      /\ confidenceLog' = IF m.reset THEN << >>
                          ELSE IF m.read /\ m.metrics.faceVisible
                          THEN Append(confidenceLog, m.metrics.confidence)
                          ELSE confidenceLog
      /\ smileLog' = IF m.reset THEN << >>
                     ELSE IF m.read /\ m.metrics.faceVisible
                     THEN Append(smileLog, FrameFeatures[name].smile10)
                     ELSE smileLog

FacialAnalyze ==
  /\ focus = "facial"
  /\ \E videoEnabled \in BOOLEAN : FacialTick(videoEnabled, camera, MaxRun)
  /\ UNCHANGED <<probe, focus, page, audioVars, camera>>

FacialDestroy ==
  /\ focus = "facial"
  /\ facial' = Facial_destroy(facial)
  /\ lastFacial' = [NoFacialCall EXCEPT !.op = "destroy",
                                        !.disabledBefore = lastFacial.disabledBefore]
  /\ faceLog' = << >>
  /\ confidenceLog' = << >>
  /\ smileLog' = << >>
  /\ UNCHANGED <<probe, focus, page, audioVars, camera>>

Next ==
  \/ MicChange
  \/ AudioInitialize
  \/ AudioAnalyze
  \/ AudioDestroy
  \/ CameraChange
  \/ FacialInitialize
  \/ FacialAnalyze
  \/ FacialDestroy

Spec == Init /\ [][Next]_vars

(***************************************************************************)
(* The PracticePage driving both engines.  The page's handlers run to      *)
(* completion one at a time; the continuation of an await on a promise     *)
(* that is already settled runs before any timer or click is served.       *)
(***************************************************************************)
InitPage ==
  /\ focus = "page"
  /\ audio = NewAudioAnalyzer("none")
  /\ mic \in {"hiss", "speech"}
  /\ lastAudio = NoAudioCall
  /\ volumeLog = << >>
  /\ clarityLog = << >>
  /\ facial = NewFacialAnalyzer
  /\ camera = "faceA"
  /\ lastFacial = NoFacialCall
  /\ faceLog = << >>
  /\ confidenceLog = << >>
  /\ smileLog = << >>
  /\ page = NewPage
  /\ probe = NoProbe

\* a continuation of initializeMedia is queued as a microtask
MicrotaskPending == page.media \in {"audioInitialize", "facialInitialize"}

\* getUserMedia rejects: the catch logs and initializeMedia ends
initializeMedia_rejected ==
  /\ page.media = "getUserMedia"
  /\ page' = [page EXCEPT !.media = "failed"]
  /\ UNCHANGED <<probe, focus, audioVars, facialVars>>

\* getUserMedia resolves: the stream is kept, the audio engine is
\* constructed and its initialize is called
initializeMedia_stream ==
  /\ page.media = "getUserMedia"
  /\ \E ctx \in {"none", "running"}, graphOk \in BOOLEAN :
       \E r \in {Audio_initialize(NewAudioAnalyzer(ctx), graphOk)} :
           /\ audio' = r.state
           /\ lastAudio' = [NoAudioCall EXCEPT !.op = "initialize",
                                               !.threw = r.threw,
                                               !.initThrew = r.threw]
  /\ volumeLog' = << >>
  /\ clarityLog' = << >>
  /\ page' = [page EXCEPT !.streamRef = TRUE, !.audioAnalyzerRef = TRUE,
                          !.media = "audioInitialize"]
  /\ UNCHANGED <<probe, focus, mic, facialVars>>

\* the await of the audio engine's initialize ends: on a rejection the
\* catch logs and initializeMedia ends; otherwise the facial engine is
\* constructed and initialized if the canvas is there
initializeMedia_audio ==
  /\ page.media = "audioInitialize"
  /\ IF lastAudio.threw
     THEN /\ page' = [page EXCEPT !.media = "failed"]
          /\ UNCHANGED facialVars
     ELSE IF page.mounted
     THEN /\ facial' = Facial_initialize(NewFacialAnalyzer)
          /\ lastFacial' = [NoFacialCall EXCEPT !.op = "initialize"]
          /\ faceLog' = << >>
          /\ confidenceLog' = << >>
          /\ smileLog' = << >>
          /\ page' = [page EXCEPT !.facialAnalyzerRef = TRUE,
                                  !.media = "facialInitialize"]
          /\ UNCHANGED camera
     ELSE /\ page' = [page EXCEPT !.media = "ready"]
          /\ UNCHANGED facialVars
  /\ UNCHANGED <<probe, focus, audioVars>>

\* the await of the facial engine's initialize ends
initializeMedia_facial ==
  /\ page.media = "facialInitialize"
  /\ page' = [page EXCEPT !.media = "ready"]
  /\ UNCHANGED <<probe, focus, audioVars, facialVars>>

\* the two intervals of a recording; the analysis interval's callback
\* closes over the updateAnalysis of the render that started it
startRecording(p) ==
  [p EXCEPT !.recordingState = "recording",
            !.elapsedTime = 0,
            !.intervalRef = p.nextTimer,
            !.analysisIntervalRef = p.nextTimer + 1,
            !.timers = @ \cup
               {[id |-> p.nextTimer, kind |-> "elapsed",
                 audioEnabled |-> p.audioEnabled, videoEnabled |-> p.videoEnabled],
                [id |-> p.nextTimer + 1, kind |-> "analysis",
                 audioEnabled |-> p.audioEnabled, videoEnabled |-> p.videoEnabled]},
            !.nextTimer = @ + 2]

\* clearInterval on what the two refs hold, if they hold anything
clearIntervals(p) ==
  {t \in p.timers : t.id \notin ({p.intervalRef, p.analysisIntervalRef} \ {0})}

\* a stop that clears the elapsed-time interval only
stopRecording_KeepsAnalysis(p) ==
  [p EXCEPT !.recordingState = "idle",
            !.timers = {t \in p.timers : t.id \notin ({p.intervalRef} \ {0})}]

stopRecording(p) ==
  [p EXCEPT !.recordingState = "idle", !.timers = clearIntervals(p)]

toggleRecording ==
  /\ page.mounted
  /\ ~MicrotaskPending
  /\ IF page.recordingState = "idle"
     THEN /\ page.nextTimer < 2 * MaxStarts
          /\ page' = startRecording(page)
     ELSE page' = stopRecording(page)
  /\ UNCHANGED <<probe, focus, audioVars, facialVars>>

toggleVideo ==
  /\ page.mounted
  /\ ~MicrotaskPending
  /\ page' = IF page.streamRef
             THEN [page EXCEPT !.videoEnabled = ~page.videoEnabled]
             ELSE page
  /\ UNCHANGED <<probe, focus, audioVars, facialVars>>

toggleAudio ==
  /\ page.mounted
  /\ ~MicrotaskPending
  /\ page' = IF page.streamRef
             THEN [page EXCEPT !.audioEnabled = ~page.audioEnabled]
             ELSE page
  /\ UNCHANGED <<probe, focus, audioVars, facialVars>>

\* the elapsed-time interval fires
elapsedTick ==
  /\ ~MicrotaskPending
  /\ \E t \in page.timers : t.kind = "elapsed"
  /\ page.elapsedTime < MaxElapsed
  /\ page' = [page EXCEPT !.elapsedTime = @ + 1]
  /\ UNCHANGED <<probe, focus, audioVars, facialVars>>

\* the analysis interval fires: updateAnalysis, with the audioEnabled and
\* videoEnabled of the closure; a disabled track delivers silence or black
updateAnalysis ==
  /\ ~MicrotaskPending
  /\ \E t \in page.timers :
       /\ t.kind = "analysis"
       /\ IF page.audioAnalyzerRef
          THEN /\ AudioTick(t.audioEnabled,
                            IF page.audioEnabled THEN mic ELSE "silence", PageRun)
               /\ UNCHANGED mic
          ELSE UNCHANGED audioVars
       /\ IF page.audioAnalyzerRef /\ lastAudio'.threw
          THEN /\ UNCHANGED facialVars
               /\ page' = [page EXCEPT !.faulted = TRUE]
          ELSE /\ IF page.facialAnalyzerRef /\ page.mounted
                  THEN /\ FacialTick(t.videoEnabled,
                                     IF page.videoEnabled THEN camera ELSE "black",
                                     PageRun)
                       /\ UNCHANGED camera
                  ELSE UNCHANGED facialVars
               /\ LET audioCalled == page.audioAnalyzerRef
                      facialCalled == page.facialAnalyzerRef /\ page.mounted
                  IN  IF facialCalled /\ lastFacial'.threw
                      THEN page' = [page EXCEPT !.faulted = TRUE]
                      ELSE page' =
                        [page EXCEPT
                           !.analysisData =
                              [fillerWords |-> IF audioCalled
                                               THEN lastAudio'.result.fillerWords ELSE 0,
                               wordsPerMinute |-> IF audioCalled
                                                  THEN lastAudio'.result.wordsPerMinute ELSE 0,
                               confidenceScore |-> IF facialCalled
                                                   THEN lastFacial'.result.confidence ELSE 0,
                               clarity |-> IF audioCalled
                                           THEN lastAudio'.result.clarity ELSE 0,
                               emotionalTone |-> IF facialCalled
                                                 THEN lastFacial'.result.emotionalTone
                                                 ELSE "Neutral"],
                           !.faceDetected = IF facialCalled
                                            THEN lastFacial'.result.faceVisible ELSE @,
                           !.lastTick = [ran |-> TRUE, audio |-> audioCalled,
                                         facial |-> facialCalled,
                                         audioEnabled |-> t.audioEnabled,
                                         videoEnabled |-> t.videoEnabled]]
  /\ UNCHANGED <<probe, focus>>

\* the page is unmounted: the effect's cleanup
unmount ==
  /\ page.mounted
  /\ ~MicrotaskPending
  /\ page' = [page EXCEPT !.mounted = FALSE, !.timers = clearIntervals(page)]
  /\ IF page.audioAnalyzerRef
     THEN \E r \in {Audio_destroy(audio)} :
            /\ audio' = r.state
            /\ lastAudio' = [NoAudioCall EXCEPT
                               !.op = "destroy",
                               !.rejected = r.rejected,
                               !.unhandled = r.unhandled,
                               !.initThrew = lastAudio.initThrew,
                               !.disabledBefore = lastAudio.disabledBefore]
            /\ UNCHANGED <<mic, volumeLog, clarityLog>>
     ELSE UNCHANGED audioVars
  /\ IF page.facialAnalyzerRef
     THEN /\ facial' = Facial_destroy(facial)
          /\ lastFacial' = [NoFacialCall EXCEPT
                               !.op = "destroy",
                               !.disabledBefore = lastFacial.disabledBefore]
          /\ faceLog' = << >>
          /\ confidenceLog' = << >>
          /\ smileLog' = << >>
          /\ UNCHANGED camera
     ELSE UNCHANGED facialVars
  /\ UNCHANGED <<probe, focus>>

NextPage ==
  \/ initializeMedia_rejected
  \/ initializeMedia_stream
  \/ initializeMedia_audio
  \/ initializeMedia_facial
  \/ toggleRecording
  \/ toggleVideo
  \/ toggleAudio
  \/ elapsedTick
  \/ updateAnalysis
  \/ unmount

SpecPage == InitPage /\ [][NextPage]_vars

(***************************************************************************)
(* Functions applied on their own, outside a tick: the input is drawn at   *)
(* the start, one step applies the function and keeps the result.          *)
(***************************************************************************)
\* everything but the probe stays as constructed
Resting ==
  /\ focus = "probe"
  /\ audio = NewAudioAnalyzer("running")
  /\ mic = "silence"
  /\ lastAudio = NoAudioCall
  /\ volumeLog = << >>
  /\ clarityLog = << >>
  /\ facial = NewFacialAnalyzer
  /\ camera = "blank"
  /\ lastFacial = NoFacialCall
  /\ faceLog = << >>
  /\ confidenceLog = << >>
  /\ smileLog = << >>
  /\ page = NewPage

\* byte values a window is drawn from: the centre, a few steps off it on
\* both sides, and the two ends of the range
SampleLevels == {0, 122, 124, 125, 127, 128, 129, 130, 133, 255}

\* every window of 1..ProbeLen samples over those values
ProbeWindows == UNION {[1..n -> SampleLevels] : n \in 1..ProbeLen}

InitVolume ==
  /\ Resting
  /\ probe \in {[of |-> "calculateVolume", data |-> w, done |-> FALSE, volumeLevel |-> 0] :
                  w \in ProbeWindows}

\* calculateVolume over the window
ProbeVolume ==
  /\ probe.of = "calculateVolume"
  /\ ~probe.done
  /\ probe' = [probe EXCEPT !.done = TRUE,
                            !.volumeLevel = calculateVolume(probe.data)]
  /\ UNCHANGED <<focus, audioVars, facialVars, page>>

SpecVolume == InitVolume /\ [][ProbeVolume]_vars

\* arguments determineEmotionalTone is applied to: both sides of each of
\* its thresholds, and the ends of each range
ToneBrightness == {40, 79, 80, 130, 131, 255}

ToneEyeOpenness == {0, 29, 30, 60, 61, 70, 71, 100}

ToneSmile == {0, 40, 41, 50, 51, 100}

ToneAngles == {-15, -11, -10, 0, 10, 11, 15}

InitTone ==
  /\ Resting
  /\ probe \in {[of |-> "determineEmotionalTone", brightness |-> b, eyeOpenness |-> e,
                 smile |-> s, headPose |-> [yaw |-> y, pitch |-> p],
                 done |-> FALSE, emotionalTone |-> "Unknown"] :
                  b \in ToneBrightness, e \in ToneEyeOpenness, s \in ToneSmile,
                  y \in ToneAngles, p \in ToneAngles}

\* determineEmotionalTone over the arguments
ProbeTone ==
  /\ probe.of = "determineEmotionalTone"
  /\ ~probe.done
  /\ probe' = [probe EXCEPT
                 !.done = TRUE,
                 !.emotionalTone = determineEmotionalTone(probe.brightness, probe.eyeOpenness,
                                                          probe.smile, probe.headPose)]
  /\ UNCHANGED <<focus, audioVars, facialVars, page>>

SpecTone == InitTone /\ [][ProbeTone]_vars

\* 100 * sin(2 * pi * k / 160) for k = 0..40, rounded
SineQuarter ==
  <<0, 4, 8, 12, 16, 20, 23, 27, 31, 35, 38, 42, 45, 49, 52, 56, 59, 62, 65,
    68, 71, 73, 76, 79, 81, 83, 85, 87, 89, 91, 92, 94, 95, 96, 97, 98, 99,
    99, 100, 100, 100>>

\* 100 * sin(2 * pi * k / 160) for any k >= 0
Sine160(k) ==
  LET r == k % 160
  IN  IF r <= 40 THEN SineQuarter[r + 1]
      ELSE IF r <= 80 THEN SineQuarter[81 - r]
      ELSE IF r <= 120 THEN - SineQuarter[r - 79]
      ELSE - SineQuarter[161 - r]

\* the bytes of a sine of the given period (in samples), amplitude (in byte
\* steps) and phase (in samples) around 128, each rounded to the nearest byte
ToneWindow(period, amplitude, phase) ==
  [i \in 1..ToneLen |->
     LET s == amplitude * Sine160(((i - 1 + phase) * 160) \div period)
     IN  128 + (IF s >= 0 THEN (s + 50) \div 100 ELSE - ((50 - s) \div 100))]

\* periods that divide 160 samples
TonePeriods == {4, 5, 8, 10, 16, 20, 32, 40, 80, 160}

ToneAmplitudes == {5, 9}

TonePhases == 0..3

SampleRates == {8000, 44100, 48000}

\* calculatePitch over a window, on a context with the given sample rate
PitchOfWindow(data, sampleRate) ==
  LET r == autoCorrelate(data, sampleRate)
  IN  IF r.found THEN (4 * sampleRate + r.lag) \div (2 * r.lag) ELSE 0

InitPitch ==
  /\ Resting
  /\ probe \in {[of |-> "calculatePitch", period |-> p, amplitude |-> a, phase |-> ph,
                 sampleRate |-> sr, done |-> FALSE, pitch |-> 0] :
                  p \in TonePeriods, a \in ToneAmplitudes, ph \in TonePhases,
                  sr \in SampleRates}

\* calculatePitch over the tone's window
ProbePitch ==
  /\ probe.of = "calculatePitch"
  /\ ~probe.done
  /\ probe' = [probe EXCEPT
                 !.done = TRUE,
                 !.pitch = PitchOfWindow(ToneWindow(probe.period, probe.amplitude, probe.phase),
                                         probe.sampleRate)]
  /\ UNCHANGED <<focus, audioVars, facialVars, page>>

SpecPitch == InitPitch /\ [][ProbePitch]_vars

(***************************************************************************)
(* Two copies of each engine, constructed and initialized alike and handed *)
(* the same input at every tick.  The first copy is in audio / facial, the *)
(* second in the probe.                                                    *)
(***************************************************************************)
InitTwin ==
  /\ focus \in {"twinAudio", "twinFacial"}
  /\ audio = Audio_initialize(NewAudioAnalyzer("running"), TRUE).state
  /\ mic \in IF focus = "twinAudio" THEN Signals ELSE {"silence"}
  /\ lastAudio = NoAudioCall
  /\ volumeLog = << >>
  /\ clarityLog = << >>
  /\ facial = Facial_initialize(NewFacialAnalyzer)
  /\ camera \in IF focus = "twinFacial" THEN Frames ELSE {"blank"}
  /\ lastFacial = NoFacialCall
  /\ faceLog = << >>
  /\ confidenceLog = << >>
  /\ smileLog = << >>
  /\ page = NewPage
  /\ probe = [of |-> "twin", audio |-> audio, facial |-> facial,
              audioResult |-> ZeroAudioMetrics,
              facialResult |-> DefaultFacialMetrics]

\* the signal both microphones deliver changes
TwinMicChange ==
  /\ focus = "twinAudio"
  /\ Len(volumeLog) < Variety
  /\ \E sig \in Signals \ {mic} : mic' = sig
  /\ UNCHANGED <<probe, focus, page, audio, lastAudio, volumeLog, clarityLog, facialVars>>

\* both audio copies analyze the same signal with the same flag; each call
\* of detectFillerWords draws from Math.random on its own
TwinAudioAnalyze ==
  /\ focus = "twinAudio"
  /\ \E audioEnabled \in BOOLEAN :
       /\ AudioTick(audioEnabled, mic, TwinRun)
       /\ \E m \in {Audio_analyzeBody(probe.audio, audioEnabled, mic)} :
            \E rnd \in 0..2 :
              probe' = [probe EXCEPT !.audio = m.state,
                                     !.audioResult = Audio_analyzeReturn(m, mic, rnd)]
  /\ UNCHANGED <<focus, page, mic, facialVars>>

\* the frame both videos show changes
TwinCameraChange ==
  /\ focus = "twinFacial"
  /\ Len(faceLog) < Variety
  /\ \E name \in Frames \ {camera} : camera' = name
  /\ UNCHANGED <<probe, focus, page, audioVars, facial, lastFacial, faceLog, confidenceLog, smileLog>>

\* both facial copies analyze the same frame with the same flag, their
\* canvases answering getContext alike
TwinFacialAnalyze ==
  /\ focus = "twinFacial"
  /\ \E videoEnabled \in BOOLEAN :
       /\ FacialTick(videoEnabled, camera, TwinRun)
       /\ \E ctxOk \in BOOLEAN :
            \E m \in {Facial_analyze(probe.facial, videoEnabled, camera, ctxOk)} :
              /\ m.read = lastFacial'.read
              /\ probe' = [probe EXCEPT !.facial = m.state,
                                        !.facialResult = m.metrics]
  /\ UNCHANGED <<focus, page, audioVars, camera>>

NextTwin ==
  \/ TwinMicChange
  \/ TwinAudioAnalyze
  \/ TwinCameraChange
  \/ TwinFacialAnalyze

SpecTwin == InitTwin /\ [][NextTwin]_vars

(***************************************************************************)
(* AudioAnalyzer, single-tap variant (services/audioAnalysis.ts): one      *)
(* analyser, a frequency snapshot per tick, one rolling history.           *)
(***************************************************************************)
Simple_volumeThreshold == 30

Simple_VolumeCapacity == 10

\* the frequency snapshots the analyser delivers: SimpleBins bytes each
Snapshots == {"zero", "low", "loud", "peak"}

SnapshotOf(name) ==
  [i \in 1..SimpleBins |->
     CASE name = "zero" -> 0
       [] name = "low"  -> 10
       [] name = "loud" -> 200
       [] name = "peak" -> IF i = 4 THEN 250 ELSE 50]

NewSimpleAnalyzer(ctx) ==
  [audioContext |-> ctx, analyser |-> FALSE, source |-> FALSE,
   dataArray |-> FALSE, previousVolumes |-> << >>]

Simple_initialize(a, graphOk) ==
  IF a.audioContext = "none" THEN [state |-> a, threw |-> TRUE]
  ELSE IF ~graphOk THEN [state |-> a, threw |-> TRUE]
  ELSE [state |-> [a EXCEPT !.source = TRUE, !.analyser = TRUE, !.dataArray = TRUE],
        threw |-> FALSE]

\* pushes the snapshot's average, kept here as the sum of its bins (the
\* average times the number of bins), and returns round(average / 255 * 100)
Simple_calculateVolume(a, data) ==
  LET sum == SumSeq(data)
  IN  [state |-> [a EXCEPT !.previousVolumes =
                     PushCapped(@, sum, Simple_VolumeCapacity)],
       volumeLevel |-> (200 * sum + 255 * Len(data)) \div (510 * Len(data))]

\* thousandths: 50 below 2 entries, else max(0, 100 - stdDev / average * 50)
Simple_calculateVolumeConsistency(a) ==
  IF Len(a.previousVolumes) < 2 THEN 50000
  ELSE LET total == SumSeq(a.previousVolumes)
       IN  IF total = 0 THEN 0
           ELSE Max2(0, 100000 - (ISqrt(Spread(a.previousVolumes) * 4) * 25000) \div total)

\* Math.round((freqClarity + volumeClarity + consistency) / 3)
Simple_calculateClarity(a, data, volumeLevel) ==
  IF volumeLevel = 0 THEN 0
  ELSE LET midStart == (Len(data) * 2) \div 10
           midEnd   == (Len(data) * 8) \div 10
           midFreqSum == SumSeq([i \in 1..(midEnd - midStart) |-> data[midStart + i]])
           freqClarity == (midFreqSum * 100000) \div (255 * (midEnd - midStart))
           volumeClarity == Min2(100000, (volumeLevel * 100000) \div 70)
           consistency == Simple_calculateVolumeConsistency(a)
       IN  (2 * (freqClarity + volumeClarity + consistency) + 3000) \div 6000

\* the frequency of the first bin that holds the largest value
Simple_calculatePitch(data) ==
  LET maxValue == SeqMax(data)
      maxIndex == IF maxValue = 0 THEN 0
                  ELSE (CHOOSE i \in 1..Len(data) :
                          data[i] = maxValue /\ \A j \in 1..(i - 1) : data[j] < maxValue) - 1
  IN  (maxIndex * defaultSampleRate + Len(data)) \div (2 * Len(data))

\* analyze(audioEnabled) on a snapshot; fillers is Math.floor(Math.random()
\* * 5) and words is Math.floor(100 + Math.random() * 80)
Simple_analyze(a, audioEnabled, data, fillers, words) ==
  IF ~audioEnabled \/ ~a.analyser \/ ~a.dataArray
  THEN [state |-> a, metrics |-> ZeroAudioMetrics]
  ELSE LET v == Simple_calculateVolume(a, data)
       IN  [state |-> v.state,
            metrics |-> [clarity |-> Simple_calculateClarity(v.state, data, v.volumeLevel),
                         fillerWords |-> fillers,
                         wordsPerMinute |-> IF v.volumeLevel > Simple_volumeThreshold
                                            THEN words ELSE 0,
                         volumeLevel |-> v.volumeLevel,
                         pitch |-> Simple_calculatePitch(data)]]

Simple_destroy(a) ==
  IF a.audioContext = "none" THEN a ELSE [a EXCEPT !.audioContext = "closed"]

\* the engine on its own: the probe holds its fields, the snapshot at its
\* analyser, and what the last call was and returned
InitSimple ==
  /\ Resting
  /\ probe \in {[of |-> "simple", engine |-> NewSimpleAnalyzer(ctx), snapshot |-> s,
                 op |-> "none", enabled |-> FALSE, afterDisabled |-> FALSE,
                 result |-> ZeroAudioMetrics] :
                  ctx \in {"none", "running"}, s \in Snapshots}

SimpleSnapshotChange ==
  /\ probe.of = "simple"
  /\ Len(probe.engine.previousVolumes) < Variety
  /\ \E s \in Snapshots \ {probe.snapshot} : probe' = [probe EXCEPT !.snapshot = s]
  /\ UNCHANGED <<focus, audioVars, facialVars, page>>

SimpleInitialize ==
  /\ probe.of = "simple"
  /\ \E graphOk \in BOOLEAN :
       probe' = [probe EXCEPT !.engine = Simple_initialize(@, graphOk).state,
                              !.op = "initialize", !.enabled = FALSE,
                              !.afterDisabled = FALSE, !.result = ZeroAudioMetrics]
  /\ UNCHANGED <<focus, audioVars, facialVars, page>>

SimpleAnalyze ==
  /\ probe.of = "simple"
  /\ \E audioEnabled \in BOOLEAN, fillers \in 0..4, words \in {100, 179} :
       \E m \in {Simple_analyze(probe.engine, audioEnabled, SnapshotOf(probe.snapshot),
                                fillers, words)} :
         probe' = [probe EXCEPT !.engine = m.state,
                                !.op = "analyze", !.enabled = audioEnabled,
                                !.afterDisabled = (probe.op = "analyze" /\ ~probe.enabled),
                                !.result = m.metrics]
  /\ UNCHANGED <<focus, audioVars, facialVars, page>>

SimpleDestroy ==
  /\ probe.of = "simple"
  /\ probe' = [probe EXCEPT !.engine = Simple_destroy(@),
                            !.op = "destroy", !.enabled = FALSE,
                            !.afterDisabled = FALSE, !.result = ZeroAudioMetrics]
  /\ UNCHANGED <<focus, audioVars, facialVars, page>>

NextSimple ==
  \/ SimpleSnapshotChange
  \/ SimpleInitialize
  \/ SimpleAnalyze
  \/ SimpleDestroy

SpecSimple == InitSimple /\ [][NextSimple]_vars

\* the fractional boxes the engine hands to analyzeRegion: the centre
\* region, the two eyes, the mouth, and the halves of estimateHeadPose
RegionBoxes ==
  {[sx |-> <<1, 5>>,    sy |-> <<3, 20>>,   ex |-> <<4, 5>>,    ey |-> <<17, 20>>],
   [sx |-> <<3, 10>>,   sy |-> <<35, 100>>, ex |-> <<42, 100>>, ey |-> <<48, 100>>],
   [sx |-> <<58, 100>>, sy |-> <<35, 100>>, ex |-> <<7, 10>>,   ey |-> <<48, 100>>],
   [sx |-> <<35, 100>>, sy |-> <<3, 5>>,    ex |-> <<65, 100>>, ey |-> <<3, 4>>],
   [sx |-> <<1, 10>>,   sy |-> <<1, 5>>,    ex |-> <<2, 5>>,    ey |-> <<4, 5>>],
   [sx |-> <<3, 5>>,    sy |-> <<1, 5>>,    ex |-> <<9, 10>>,   ey |-> <<4, 5>>],
   [sx |-> <<1, 5>>,    sy |-> <<1, 10>>,   ex |-> <<4, 5>>,    ey |-> <<2, 5>>],
   [sx |-> <<1, 5>>,    sy |-> <<1, 2>>,    ex |-> <<4, 5>>,    ey |-> <<17, 20>>]}

InitRegion ==
  /\ Resting
  /\ probe \in {[of |-> "analyzeRegion", frame |-> name, box |-> b,
                 done |-> FALSE, brightness |-> 0] :
                  name \in Frames, b \in RegionBoxes}

\* analyzeRegion over the frame and the box
ProbeRegion ==
  /\ probe.of = "analyzeRegion"
  /\ ~probe.done
  /\ probe' = [probe EXCEPT
                 !.done = TRUE,
                 !.brightness = analyzeRegion(FrameOf(probe.frame), probe.box.sx,
                                              probe.box.sy, probe.box.ex, probe.box.ey)]
  /\ UNCHANGED <<focus, audioVars, facialVars, page>>

SpecRegion == InitRegion /\ [][ProbeRegion]_vars

(***************************************************************************)
(* Properties.                                                             *)
(***************************************************************************)

\* C1: an analyze call on the audio engine that is passed audioEnabled =
\* false, or that is made on an engine no initialize has completed on,
\* returns the all-zero metrics and leaves volumeHistory and clarityHistory
\* empty and speechDetected false
C1_DisabledAudioReturnsZeros ==
  (lastAudio.op = "analyze" /\ (~lastAudio.enabled \/ ~audio.source)) =>
     /\ lastAudio.result = [clarity |-> 0, fillerWords |-> 0, wordsPerMinute |-> 0,
                            volumeLevel |-> 0, pitch |-> 0]
     /\ audio.volumeHistory = << >>
     /\ audio.clarityHistory = << >>
     /\ ~audio.speechDetected

\* an initialized engine whose histories held entries has been passed false
C1_Witness ==
  /\ lastAudio.op = "analyze"
  /\ ~lastAudio.enabled
  /\ audio.source
  /\ lastAudio.priorLen > 0
  /\ audio.volumeHistory = << >>

\* C2: an analyze call on the facial engine that is passed videoEnabled =
\* false, or that is made before initialize, returns the default metrics and
\* leaves the four histories empty
C2_DisabledFacialReturnsDefault ==
  (lastFacial.op = "analyze" /\ (~lastFacial.enabled \/ ~facial.canvasRef)) =>
     /\ lastFacial.result = [confidence |-> 0, emotionalTone |-> "Unknown",
                             faceVisible |-> FALSE, eyeOpenness |-> 0,
                             brightness |-> 0]
     /\ facial.faceDetectionHistory = << >>
     /\ facial.confidenceHistory = << >>
     /\ facial.smileHistory = << >>
     /\ facial.headPositionHistory = << >>

\* an initialized engine whose histories held entries has been passed false
C2_Witness ==
  /\ lastFacial.op = "analyze"
  /\ ~lastFacial.enabled
  /\ facial.canvasRef
  /\ lastFacial.priorLen > 0
  /\ facial.faceDetectionHistory = << >>

\* C3: at every call boundary every rolling history is within its capacity:
\* 30 for volumeHistory, clarityHistory, faceDetectionHistory and
\* confidenceHistory, 20 for smileHistory
C3_HistoriesWithinCapacity ==
  /\ Len(audio.volumeHistory) <= 30
  /\ Len(audio.clarityHistory) <= 30
  /\ Len(facial.faceDetectionHistory) <= 30
  /\ Len(facial.confidenceHistory) <= 30
  /\ Len(facial.smileHistory) <= 20

\* more than 30 faces, confidences and smiles have been appended since the
\* last reset, and the three facial histories are full
C3_Witness ==
  /\ Len(faceLog) > 30
  /\ Len(confidenceLog) > 30
  /\ Len(smileLog) > 30
  /\ Len(facial.faceDetectionHistory) = 30
  /\ Len(facial.confidenceHistory) = 30
  /\ Len(facial.smileHistory) = 20

\* C4: at every call boundary each rolling history is, in insertion order,
\* the last min(n, capacity) of the n values appended to it since its last
\* reset
C4_HistoriesAreFifo ==
  /\ audio.volumeHistory = SliceLast(volumeLog, 30)
  /\ audio.clarityHistory = SliceLast(clarityLog, 30)
  /\ facial.faceDetectionHistory = SliceLast(faceLog, 30)
  /\ facial.confidenceHistory = SliceLast(confidenceLog, 30)
  /\ facial.smileHistory = SliceLast(smileLog, 20)

\* an append to a full volumeHistory has dropped an entry that differs from
\* the ones kept
C4_Witness ==
  /\ Len(volumeLog) > 30
  /\ Len(audio.volumeHistory) = 30
  /\ volumeLog[1] # volumeLog[2]
  /\ audio.volumeHistory[1] = volumeLog[Len(volumeLog) - 29]

\* 100 - 100 * stdDev / mean of the values, clamped at 0, in thousandths;
\* 100 when the mean is 0
VolumeVarianceScore(values) ==
  IF SumSeq(values) > 0
  THEN Max2(0, 100000 - (ISqrt(Spread(values) * 1600) * 2500) \div SumSeq(values))
  ELSE 100000

\* 100 - 100 * stdDev / 30 of the values, clamped at 0, in thousandths
FaceVarianceScore(values) ==
  Max2(0, 100000 - (ISqrt(Spread(values) * 1600) * 250) \div (3 * Len(values)))

\* C5: at every call boundary, what volumeStability evaluates to on the next
\* active tick is 50 while fewer than 3 volumes have been appended since the
\* last reset, and the variance score of the last 10 from then on; what
\* faceStability evaluates to is 50 while fewer than 3 confidences have been
\* appended since the last reset, and the variance score of the last 15 from
\* then on
C5_ColdStartStability ==
  /\ calculateVolumeStability(audio) =
        IF Len(volumeLog) < 3 THEN 50000
        ELSE VolumeVarianceScore(SliceLast(volumeLog, 10))
  /\ calculateFaceStability(facial) =
        IF Len(confidenceLog) < 3 THEN 50000
        ELSE FaceVarianceScore(SliceLast(confidenceLog, 15))

\* after a disabled tick, a fourth active tick has run on three differing
\* volumes: its volumeStability was not the default
C5_Witness ==
  /\ lastAudio.op = "analyze"
  /\ lastAudio.active
  /\ lastAudio.disabledBefore
  /\ Len(volumeLog) = 4
  /\ lastAudio.priorLen = 3
  /\ VolumeVarianceScore(SubSeq(volumeLog, 1, 3)) # 50000

\* C6: no updateAnalysis of the page faults, and an analyze the page makes on
\* an engine no initialize has completed on returns the zero / default
\* metrics without raising
C6_NoFaultBeforeInitialize ==
  /\ ~page.faulted
  /\ (lastAudio.op = "analyze" /\ ~audio.source) =>
        /\ ~lastAudio.threw
        /\ lastAudio.result = ZeroAudioMetrics
  /\ (lastFacial.op = "analyze" /\ ~facial.canvasRef) =>
        /\ ~lastFacial.threw
        /\ lastFacial.result = DefaultFacialMetrics

\* a tick of a recording has passed true to an audio engine whose initialize
\* threw, the facial engine being absent
C6_Witness ==
  /\ page.lastTick.ran
  /\ page.lastTick.audio
  /\ page.lastTick.audioEnabled
  /\ ~page.lastTick.facial
  /\ lastAudio.op = "analyze"
  /\ lastAudio.initThrew
  /\ ~audio.source

\* C7: no destroy raises; a destroy that follows a destroy leaves the engine
\* as it was; after a destroy of the facial engine previousFrameData is null
\* and the histories are empty
C7_DestroyIsIdempotent ==
  [][/\ lastAudio'.op = "destroy" => ~lastAudio'.unhandled
     /\ (lastAudio.op = "destroy" /\ lastAudio'.op = "destroy") => audio' = audio
     /\ (lastFacial.op = "destroy" /\ lastFacial'.op = "destroy") => facial' = facial
     /\ lastFacial'.op = "destroy" =>
           /\ facial'.previousFrameData = "null"
           /\ facial'.faceDetectionHistory = << >>
           /\ facial'.confidenceHistory = << >>
           /\ facial'.smileHistory = << >>
           /\ facial'.headPositionHistory = << >>]_vars

\* a destroy of an audio engine whose context was closed already: the close
\* was rejected
C7_Witness ==
  /\ lastAudio.op = "destroy"
  /\ lastAudio.rejected
  /\ audio.audioContext = "closed"

\* C8: on an engine constructed without an AudioContext every initialize
\* throws, nothing is ever bound, and every analyze returns the zero metrics
C8_NoContextBindsNothing ==
  audio.audioContext = "none" =>
     /\ lastAudio.op = "initialize" => lastAudio.threw
     /\ ~audio.source /\ ~audio.analyser /\ ~audio.frequencyAnalyser
     /\ ~audio.timeDomainData /\ ~audio.frequencyData
     /\ lastAudio.op = "analyze" => lastAudio.result = ZeroAudioMetrics

\* an engine without a context, whose initialize has thrown, has been passed
\* true
C8_Witness ==
  /\ audio.audioContext = "none"
  /\ lastAudio.initThrew
  /\ lastAudio.op = "analyze"
  /\ lastAudio.enabled

\* C9: the clarity an analyze returns is 0 whenever the volumeLevel it
\* returns is below 15
C9_QuietMeansNoClarity ==
  (lastAudio.op = "analyze" /\ lastAudio.result.volumeLevel < 15) =>
     lastAudio.result.clarity = 0

\* an active tick on a history of six entries or more measured a volume
\* between 1 and 14
C9_Witness ==
  /\ lastAudio.op = "analyze"
  /\ lastAudio.active
  /\ lastAudio.result.volumeLevel \in 1..14
  /\ lastAudio.priorLen >= 6

\* C10: a tick that reads a frame reports the face not visible exactly when
\* the center brightness is below 40 or the edge count is at most 100, the
\* result then being the default metrics
C10_VisibilityRule ==
  (lastFacial.op = "analyze" /\ lastFacial.read) =>
     LET ft == FrameFeatures[lastFacial.frame]
         hidden == ft.centerBrightness < 40 \/ ft.edges <= 100
     IN  /\ lastFacial.result.faceVisible = ~hidden
         /\ hidden => lastFacial.result = DefaultFacialMetrics

\* a frame of exactly 100 edges and a bright center has been read
C10_Witness ==
  /\ lastFacial.op = "analyze"
  /\ lastFacial.read
  /\ FrameFeatures[lastFacial.frame].edges = 100
  /\ FrameFeatures[lastFacial.frame].centerBrightness >= 40
  /\ ~lastFacial.result.faceVisible

\* C11: every AudioMetrics that analyze returns has clarity and volumeLevel
\* in 0..100 and fillerWords, wordsPerMinute and pitch at 0 or above, after
\* any sequence of ticks and for every window
C11_AudioMetricsInRange ==
  lastAudio.op = "analyze" =>
    /\ lastAudio.result.clarity \in 0..100
    /\ lastAudio.result.volumeLevel \in 0..100
    /\ lastAudio.result.fillerWords \in Nat
    /\ lastAudio.result.wordsPerMinute \in Nat
    /\ lastAudio.result.pitch \in Nat

\* a tick on the loudest window, with a history behind it
C11_Witness ==
  /\ lastAudio.op = "analyze"
  /\ lastAudio.active
  /\ lastAudio.priorLen >= 5
  /\ lastAudio.result.volumeLevel = 100
  /\ lastAudio.result.clarity > 0
  /\ lastAudio.result.wordsPerMinute > 0
  /\ lastAudio.result.pitch > 0

\* C12: every FacialMetrics that analyze returns has confidence and
\* eyeOpenness in 0..100, brightness in 0..255 and an emotionalTone out of
\* the eight labels
C12_FacialMetricsInRange ==
  lastFacial.op = "analyze" =>
    /\ lastFacial.result.confidence \in 0..100
    /\ lastFacial.result.eyeOpenness \in 0..100
    /\ lastFacial.result.brightness \in 0..255
    /\ lastFacial.result.emotionalTone \in
         {"Unknown", "Nervous", "Uncertain", "Confident", "Engaged",
          "Distracted", "Alert", "Neutral"}

\* a visible face whose eye regions are dark enough for the openness to
\* sit at its upper limit
C12_Witness ==
  /\ lastFacial.op = "analyze"
  /\ lastFacial.read
  /\ lastFacial.result.faceVisible
  /\ lastFacial.result.eyeOpenness = 100
  /\ lastFacial.result.confidence > 0
  /\ lastFacial.result.emotionalTone # "Unknown"

\* every window's length, summed distance from 128 and volumeLevel
RatedWindows ==
  {<<Len(w), AbsDeviation(w), calculateVolume(w)>> : w \in ProbeWindows}

\* C13: volumeLevel lies in 0..100 and, among windows of one length, does
\* not decrease when the sum over the samples of |sample - 128| grows
C13_VolumeMonotone ==
  (probe.of = "calculateVolume" /\ probe.done) =>
    /\ probe.volumeLevel \in 0..100
    /\ \A t \in RatedWindows :
         (t[1] = Len(probe.data) /\ t[2] >= AbsDeviation(probe.data))
         => t[3] >= probe.volumeLevel

\* a window strictly inside the range that a window of the same length and
\* a larger sum exceeds, and that another window of the same sum matches
C13_Witness ==
  /\ probe.of = "calculateVolume"
  /\ probe.done
  /\ probe.volumeLevel \in 1..99
  /\ \E t \in RatedWindows :
       /\ t[1] = Len(probe.data)
       /\ t[2] > AbsDeviation(probe.data)
       /\ t[3] > probe.volumeLevel
  /\ \E w \in [1..Len(probe.data) -> SampleLevels] :
       w # probe.data /\ AbsDeviation(w) = AbsDeviation(probe.data)

\* C14: emotionalTone is the label of the first rule that matches, in the
\* order Nervous, Uncertain, Confident, Engaged, Distracted, Alert, and
\* Neutral when none does; so eyeOpenness below 30 gives "Nervous"
\* whatever brightness, smile and head pose are
C14_TonePrecedence ==
  (probe.of = "determineEmotionalTone" /\ probe.done) =>
    LET nervous    == probe.eyeOpenness < 30
        uncertain  == probe.brightness < 80
        confident  == probe.smile > 50 /\ probe.eyeOpenness > 60
        engaged    == probe.smile > 40
        distracted == \/ probe.headPose.pitch > 10 \/ probe.headPose.pitch < -10
                      \/ probe.headPose.yaw > 10 \/ probe.headPose.yaw < -10
        alert      == probe.eyeOpenness > 70 /\ probe.brightness > 130
        rules == << <<nervous, "Nervous">>, <<uncertain, "Uncertain">>,
                    <<confident, "Confident">>, <<engaged, "Engaged">>,
                    <<distracted, "Distracted">>, <<alert, "Alert">> >>
        matching == {i \in 1..6 : rules[i][1]}
    IN  /\ matching = {} => probe.emotionalTone = "Neutral"
        /\ matching # {} =>
             \E i \in matching :
               /\ \A j \in matching : i <= j
               /\ probe.emotionalTone = rules[i][2]
        /\ nervous => probe.emotionalTone = "Nervous"

\* nearly closed eyes in poor light, smiling, head turned: three later
\* rules match as well
C14_Witness ==
  /\ probe.of = "determineEmotionalTone"
  /\ probe.done
  /\ probe.eyeOpenness < 30
  /\ probe.brightness < 80
  /\ probe.smile > 50
  /\ probe.headPose.yaw > 10
  /\ probe.emotionalTone = "Nervous"

\* C15: on an initialized audio engine in any state it can reach, an active
\* tick on a window whose samples are all 128 returns volumeLevel 0,
\* clarity 0, pitch 0 and wordsPerMinute 0, tick after tick
C15_SilenceReadsZero ==
  [][(/\ mic = "silence"
      /\ lastAudio'.op = "analyze"
      /\ lastAudio'.active
      /\ Len(volumeLog') = Len(volumeLog) + 1)
     => /\ lastAudio'.result.volumeLevel = 0
        /\ lastAudio'.result.clarity = 0
        /\ lastAudio'.result.pitch = 0
        /\ lastAudio'.result.wordsPerMinute = 0]_vars

\* a run of flat windows that followed a loud one
C15_Witness ==
  /\ mic = "silence"
  /\ lastAudio.op = "analyze"
  /\ lastAudio.active
  /\ Len(volumeLog) >= 4
  /\ volumeLog[1] = 100
  /\ \A i \in 2..Len(volumeLog) : volumeLog[i] = 0
  /\ lastAudio.result.volumeLevel = 0
  /\ lastAudio.result.pitch = 0

\* the frames whose pixels all have the colour of the first pixel
UniformFrames ==
  {name \in Frames :
     LET data == FrameOf(name).data
     IN  \A i \in DOMAIN data : data[i] = data[i % 4]}

\* C16: a frame of one colour has an edge count of 0 and no visible face:
\* the tick that reads it returns the default metrics, appends false to
\* faceDetectionHistory and appends nothing to confidenceHistory
C16_UniformFrameHasNoFace ==
  [][(/\ camera \in UniformFrames
      /\ lastFacial'.op = "analyze"
      /\ lastFacial'.read
      /\ Len(faceLog') = Len(faceLog) + 1)
     => /\ FrameFeatures[camera].edges = 0
        /\ ~lastFacial'.result.faceVisible
        /\ lastFacial'.result = DefaultFacialMetrics
        /\ Len(facial'.faceDetectionHistory) > 0
        /\ ~facial'.faceDetectionHistory[Len(facial'.faceDetectionHistory)]
        /\ faceLog' = Append(faceLog, FALSE)
        /\ facial'.confidenceHistory = facial.confidenceHistory
        /\ confidenceLog' = confidenceLog]_vars

\* a bright frame of one colour read after a face was seen: the confidence
\* history keeps its entry
C16_Witness ==
  /\ camera \in UniformFrames
  /\ FrameFeatures[camera].centerBrightness >= minBrightness
  /\ lastFacial.op = "analyze"
  /\ lastFacial.read
  /\ lastFacial.frame = camera
  /\ Len(faceLog) >= 2
  /\ faceLog[1]
  /\ ~faceLog[Len(faceLog)]
  /\ Len(facial.confidenceHistory) = 1
  /\ lastFacial.result = DefaultFacialMetrics

\* C17: for a window holding a pure sine of frequency f = sampleRate /
\* period, the pitch is within a small tolerance (a twentieth) of f, or it
\* is 0 and the correlation exceeds 0.9 at no lag from 10 to 1023
C17_PureTonePitch ==
  (probe.of = "calculatePitch" /\ probe.done) =>
    \/ 20 * Abs(probe.pitch * probe.period - probe.sampleRate) <= probe.sampleRate
    \/ /\ probe.pitch = 0
       /\ \A lag \in minLag..(maxLag - 1) :
            ~Correlates(ToneWindow(probe.period, probe.amplitude, probe.phase), lag)

\* C18: analyze is a function of its input and the engine's history alone:
\* two copies of an engine that hold the same histories and are handed the
\* same input return the same metrics in every field and end in the same
\* state
C18_AnalyzeIsPure ==
  probe.of = "twin" =>
    /\ probe.audio = audio
    /\ probe.audioResult = lastAudio.result
    /\ probe.facial = facial
    /\ probe.facialResult = lastFacial.result

\* the blend 0.4 * speechFrequencyQuality + 0.3 * volumeStability + 0.2 *
\* pitchStability + 0.1 * (100 - noiseLevel) of an engine on a signal, in
\* ten-thousandths, and its rounding after a halving or none
ClarityBlend(a, sig) ==
  4 * SignalQuality[sig] + 3 * calculateVolumeStability(a)
    + 2 * calculatePitchStability(a) + (100000 - estimateNoiseLevel(a))

RoundedClarity(blend, halved) ==
  LET unit == IF halved THEN 20000 ELSE 10000
  IN  Min2(100, Max2(0, (2 * blend + unit) \div (2 * unit)))

\* C19: on a tick that measures volumeLevel 15 or more, the blended clarity
\* is halved before the clamp when the tick is not speaking (volumeLevel at
\* most 40) and volumeHistory holds 5 entries or more, exactly 5 included,
\* and is not halved when it is speaking or the history holds fewer
C19_HalvedFromFiveEntries ==
  [][(/\ lastAudio'.op = "analyze"
      /\ lastAudio'.active
      /\ Len(volumeLog') = Len(volumeLog) + 1
      /\ lastAudio'.result.volumeLevel >= 15)
     => lastAudio'.result.clarity =
          RoundedClarity(ClarityBlend(audio, mic),
                         lastAudio'.result.volumeLevel <= 40
                           /\ Len(audio.volumeHistory) >= 5)]_vars

\* the signals whose frequency snapshot is zero in every bin
ZeroSnapshotSignals ==
  {sig \in Signals : \A k \in DOMAIN SpectrumOf(sig) : SpectrumOf(sig)[k] = 0}

\* C20: with a frequency snapshot of zeros (low + mid + high = 0)
\* speechFrequencyQuality is the default 50, and the tick's clarity is that
\* of a blend to which it contributes 0.4 * 50
C20_ZeroSnapshotRatesFifty ==
  [][(/\ mic \in ZeroSnapshotSignals
      /\ lastAudio'.op = "analyze"
      /\ lastAudio'.active
      /\ Len(volumeLog') = Len(volumeLog) + 1
      /\ lastAudio'.result.volumeLevel >= 15)
     => /\ SignalQuality[mic] = 50000
        /\ lastAudio'.result.clarity =
             RoundedClarity(ClarityBlend(audio, mic) - 4 * SignalQuality[mic] + 4 * 50000,
                            lastAudio'.result.volumeLevel <= 40
                              /\ Len(audio.volumeHistory) > 5)]_vars

\* C21: on an active audio tick the two appends come last: clarity (its
\* stabilities, noise level and halving test), wordsPerMinute and
\* fillerWords are all computed from the histories as they stood before
\* the tick appended to them
C21_AppendsComeLast ==
  [][(/\ lastAudio'.op = "analyze"
      /\ lastAudio'.active
      /\ Len(volumeLog') = Len(volumeLog) + 1)
     => LET r == lastAudio'.result
        IN  /\ r.clarity =
                 IF r.volumeLevel < 15 THEN 0
                 ELSE RoundedClarity(ClarityBlend(audio, mic),
                                     r.volumeLevel <= 40 /\ Len(audio.volumeHistory) > 5)
            /\ r.wordsPerMinute =
                 IF r.volumeLevel > 40 /\ r.pitch # 0
                 THEN (1300000 + 4 * calculateVolumeStability(audio) + 5000) \div 10000
                 ELSE 0
            /\ r.fillerWords \in {detectFillerWords(audio, rnd) : rnd \in 0..2}]_vars

\* C22: wordsPerMinute is 0 when the tick is not speaking (volumeLevel at
\* most 40) or the pitch is 0, and round(130 + 40 * volumeStability / 100)
\* otherwise; so it is 0 or within 130..170, and above 0 only with
\* volumeLevel above 40 and a pitch above 0
C22_WordsPerMinuteRule ==
  [][(/\ lastAudio'.op = "analyze"
      /\ Len(volumeLog') = Len(volumeLog) + 1 \/ ~lastAudio'.active)
     => LET r == lastAudio'.result
        IN  /\ lastAudio'.active =>
                 r.wordsPerMinute =
                   IF r.volumeLevel <= 40 \/ r.pitch = 0 THEN 0
                   ELSE (2 * (1300000 + 4 * calculateVolumeStability(audio)) + 10000)
                        \div 20000
            /\ r.wordsPerMinute \in {0} \cup 130..170
            /\ r.wordsPerMinute > 0 => (r.volumeLevel > 40 /\ r.pitch > 0)]_vars

\* a speaking tick with a pitch, on a history long and uneven enough for
\* the stability to have left its default
C22_Witness ==
  /\ lastAudio.op = "analyze"
  /\ lastAudio.active
  /\ lastAudio.priorLen >= 3
  /\ lastAudio.result.volumeLevel > 40
  /\ lastAudio.result.pitch > 0
  /\ lastAudio.result.wordsPerMinute \in 130..170
  /\ lastAudio.result.wordsPerMinute # 150
  /\ lastAudio.result.wordsPerMinute # 170

\* C23: fillerWords is 0, 1 or 2 on every audio tick, and 0 unless two of
\* the last 5 entries of volumeHistory, as the tick leaves it, lie more than
\* 20 apart; so it is 0 throughout a run of equal volume levels and on the
\* first active tick after a reset
C23_FillerWordsRule ==
  lastAudio.op = "analyze" =>
    LET h == audio.volumeHistory
        last5 == {i \in 1..Len(h) : i > Len(h) - 5}
    IN  /\ lastAudio.result.fillerWords \in {0, 1, 2}
        /\ lastAudio.result.fillerWords # 0 =>
             /\ lastAudio.active
             /\ \E i, j \in last5 : h[i] - h[j] > 20
        /\ (\A i, j \in 1..Len(volumeLog) : volumeLog[i] = volumeLog[j]) =>
             lastAudio.result.fillerWords = 0
        /\ Len(volumeLog) <= 1 => lastAudio.result.fillerWords = 0

\* a count of 2 on a history of 5 entries, the oldest of them apart from
\* the rest
C23_Witness ==
  /\ lastAudio.op = "analyze"
  /\ lastAudio.active
  /\ Len(audio.volumeHistory) = 5
  /\ audio.volumeHistory[2] = audio.volumeHistory[5]
  /\ lastAudio.result.fillerWords = 2

\* history h2 is history h with the one entry x appended, the oldest entry
\* gone if h was at its capacity
OneAppended(h, h2, x, cap) ==
  h2 = IF Len(h) < cap THEN h \o <<x>> ELSE SubSeq(h, 2, Len(h)) \o <<x>>

\* C24: a facial tick that reads a frame appends exactly its faceVisible to
\* faceDetectionHistory; it appends exactly one entry to confidenceHistory
\* (its confidence) and one to smileHistory when the face is visible, and
\* leaves both as they were when it is not
C24_FacialAppends ==
  [][(/\ lastFacial'.op = "analyze"
      /\ lastFacial'.read
      /\ Len(faceLog') = Len(faceLog) + 1)
     => LET r == lastFacial'.result
        IN  /\ OneAppended(facial.faceDetectionHistory, facial'.faceDetectionHistory,
                           r.faceVisible, 30)
            /\ r.faceVisible =>
                 /\ OneAppended(facial.confidenceHistory, facial'.confidenceHistory,
                                r.confidence, 30)
                 /\ \E smile \in 0..1000 :
                      OneAppended(facial.smileHistory, facial'.smileHistory, smile, 20)
            /\ ~r.faceVisible =>
                 /\ facial'.confidenceHistory = facial.confidenceHistory
                 /\ facial'.smileHistory = facial.smileHistory]_vars

\* a second tick without a face after ticks with one: the confidence and
\* smile histories still hold what the visible ticks left
C24_Witness ==
  /\ lastFacial.op = "analyze"
  /\ lastFacial.read
  /\ ~lastFacial.result.faceVisible
  /\ Len(faceLog) >= 4
  /\ faceLog[1]
  /\ ~faceLog[Len(faceLog) - 1]
  /\ Len(facial.confidenceHistory) >= 1
  /\ \A i \in 1..Len(facial.confidenceHistory) : facial.confidenceHistory[i] > 0
  /\ Len(facial.smileHistory) = Len(facial.confidenceHistory)

\* C25: in the single-tap variant, from any state, analyze(false) returns
\* the all-zero metrics and leaves previousVolumes empty, so that the next
\* enabled tick finds no entry but its own in it and rates the
\* consistency from cold
C25_SimpleDisableContract ==
  (probe.of = "simple" /\ probe.op = "analyze") =>
    /\ ~probe.enabled =>
         /\ probe.result = ZeroAudioMetrics
         /\ probe.engine.previousVolumes = << >>
    /\ (probe.enabled /\ probe.afterDisabled) =>
         Len(probe.engine.previousVolumes) <= 1

\* the rounded mean of (R + G + B) / 3 over the pixels (x, y) of a box,
\* floor(sx * width) <= x < floor(ex * width) and floor(sy * height) <= y <
\* floor(ey * height), pixel (x, y) read at byte offset 4 * (y * width + x)
BoxMean(frame, box) ==
  LET x0 == (box.sx[1] * frame.width) \div box.sx[2]
      x1 == (box.ex[1] * frame.width) \div box.ex[2]
      y0 == (box.sy[1] * frame.height) \div box.sy[2]
      y1 == (box.ey[1] * frame.height) \div box.ey[2]
      count == (x1 - x0) * (y1 - y0)
      total == SumSeq([r \in 1..(y1 - y0) |->
                         StrideSum(frame.data, 4 * ((y0 + r - 1) * frame.width + x0),
                                   0, x1 - x0)])
  IN  (2 * total + 3 * count) \div (6 * count)

\* C26: analyzeRegion's brightness is the rounded mean of (R + G + B) / 3
\* over exactly the pixels of the fractional box, each read at its own
\* byte offset; the centre-region brightness is that of the box x in
\* [0.2, 0.8], y in [0.15, 0.85]
C26_RegionIsBoxMean ==
  (probe.of = "analyzeRegion" /\ probe.done) =>
    probe.brightness = BoxMean(FrameOf(probe.frame), probe.box)

\* the extremes of what a visible face can hand to calculateConfidence:
\* brightness 40..255, eye openness, smile and symmetry 0..100, each head
\* angle 0 or 15 degrees either way, centeredness 50 or 100
ConfidenceCorners ==
  [brightness : {40, 255}, eyeOpenness : {0, 100}, smile : {0, 100},
   symmetry : {0, 100}, headPose : {[yaw |-> 0, pitch |-> 0], [yaw |-> -15, pitch |-> 15]},
   centeredness : {50, 100}]

\* C27: on every facial tick confidence is 0 exactly when faceVisible is
\* false, which is exactly when emotionalTone is "Unknown"; a visible face
\* has a confidence of at least 1 and at most 94, whatever the confidence
\* history holds
C27_ConfidenceZeroIffNoFace ==
  /\ lastFacial.op = "analyze" =>
       LET r == lastFacial.result
       IN  /\ (r.confidence = 0) <=> ~r.faceVisible
           /\ (r.emotionalTone = "Unknown") <=> ~r.faceVisible
           /\ r.faceVisible => r.confidence \in 1..94
  /\ \E stability \in {calculateFaceStability(facial)} :
       \A c \in ConfidenceCorners :
         calculateConfidence(c.brightness, c.eyeOpenness, c.smile, c.symmetry,
                             c.headPose, stability, c.centeredness) \in 1..94

\* a visible face rated over a confidence history of three or more entries
C27_Witness ==
  /\ lastFacial.op = "analyze"
  /\ lastFacial.result.faceVisible
  /\ lastFacial.result.confidence > 0
  /\ Len(facial.confidenceHistory) >= 4
  /\ calculateFaceStability(facial) < 100000

\* a step of the page that is a firing of the analysis interval: an analyze
\* call is the last call on an engine, and nothing that a click, the
\* elapsed-time interval, initializeMedia or the unmount changes has changed
AnalysisTickStep ==
  /\ lastAudio'.op = "analyze" \/ lastFacial'.op = "analyze"
  /\ page'.audioEnabled = page.audioEnabled
  /\ page'.videoEnabled = page.videoEnabled
  /\ page'.recordingState = page.recordingState
  /\ page'.elapsedTime = page.elapsedTime
  /\ page'.mounted = page.mounted
  /\ page'.media = page.media
  /\ <<lastAudio, lastFacial, page>>' # <<lastAudio, lastFacial, page>>

\* C28: every analysis tick of a recording passes to the two analyze calls
\* the audioEnabled and videoEnabled the page has at that tick: after the
\* microphone (camera) is toggled off the next tick calls analyze with
\* false and resets that engine, after it is toggled back on the next tick
\* calls analyze with true
C28_TicksPassCurrentFlags ==
  [][AnalysisTickStep =>
       /\ lastAudio'.op = "analyze" =>
            /\ lastAudio'.enabled = page.audioEnabled
            /\ ~page.audioEnabled => audio'.volumeHistory = << >>
       /\ lastFacial'.op = "analyze" /\ lastFacial' # lastFacial =>
            lastFacial'.enabled = page.videoEnabled]_vars

\* C29: a failure of AudioAnalyzer.initialize in initializeMedia is absorbed
\* and costs only the audio engine: with the canvas there the facial engine
\* is still constructed and initialized, and the analysis ticks after it
\* call the facial engine and show its metrics while the audio metrics
\* stay zero
C29_AudioFailureSparesFacial ==
  /\ (lastAudio.initThrew /\ page.mounted /\ page.media \in {"ready", "failed"})
       => (page.facialAnalyzerRef /\ facial.canvasRef)
  /\ (lastAudio.initThrew /\ page.lastTick.ran)
       => /\ page.lastTick.facial
          /\ page.analysisData.clarity = 0
          /\ page.analysisData.wordsPerMinute = 0
          /\ page.analysisData.fillerWords = 0

\* the intervals of one kind that are registered and not cleared
ActiveTimers(kind) == {t \in page.timers : t.kind = kind}

\* idle, or unmounted: no interval; recording on the mounted page: one
\* elapsed-time interval and one analysis interval
TimersMatchRecording ==
  /\ page.recordingState \in {"idle", "recording"}
  /\ page.recordingState = "idle" => page.timers = {}
  /\ (page.recordingState = "recording" /\ page.mounted) =>
       /\ Cardinality(ActiveTimers("elapsed")) = 1
       /\ Cardinality(ActiveTimers("analysis")) = 1
       /\ Cardinality(page.timers) = 2
  /\ ~page.mounted => page.timers = {}

\* C30: after any clicks on the record button and an unmount, an idle page
\* has no elapsed-time and no analysis interval, a recording page has
\* exactly one of each, recordingState is never "paused", no interval is
\* left after the unmount; so analyze runs only while recording, at most
\* once per engine for each firing of the analysis interval
C30_TimersFollowRecording ==
  /\ []TimersMatchRecording
  /\ [][AnalysisTickStep =>
          /\ page.recordingState = "recording"
          /\ page.mounted
          /\ Len(volumeLog') <= Len(volumeLog) + 1
          /\ Len(faceLog') <= Len(faceLog) + 1]_vars

\* a tick of a second recording, the first one stopped
C30_Witness ==
  /\ page.recordingState = "recording"
  /\ page.mounted
  /\ page.intervalRef = 3
  /\ Cardinality(page.timers) = 2
  /\ page.lastTick.ran
  /\ Len(volumeLog) >= 1

====
